---- MODULE Spec2Model ----
(***************************************************************************)
(* A model of the job_search repository: the SQLite job store              *)
(* (db/jobs.py, db/feeds.py, db/schema.py), the RSS fetch pass             *)
(* (run_pipeline.py, rss_job_feed.py) and the analyzer / deduplicator      *)
(* (job_analyzer.py).                                                      *)
(*                                                                         *)
(* Text is modelled as follows.  A title is a sequence of lexemes: a       *)
(* maximal run of \w characters is one lexeme (a word), every other        *)
(* character is a lexeme of its own (" ", ",", "(", ")", "-").  Other      *)
(* strings (urls, names, descriptions) are atomic.  SQL NULL / Python None *)
(* is NULL in a text column and NONE in a numeric column.  Timestamps and  *)
(* dates are integers (clock ticks, day numbers).                          *)
(***************************************************************************)
EXTENDS Integers, Sequences, FiniteSets, TLC

VARIABLES
    jobs,       \* the rows of table jobs
    sources,    \* the rows of table sources
    feeds,      \* the rows of table feeds
    seq,        \* sqlite_sequence: the AUTOINCREMENT counter of each table
    now,        \* the wall clock, strftime('now') / datetime.now()
    last,       \* the last operation: what was called and what it returned
    remote,     \* what each RSS feed serves: feed url -> set of entries
    run,        \* the pipeline pass in progress (run_rss_fetch)
    nt,         \* a title and what normalize_title makes of it
    pipe,       \* the pipeline invocation in progress (run_pipeline)
    loc         \* a title and description given to the location filter

vars == <<jobs, sources, feeds, seq, now, last, remote, run, nt, pipe, loc>>

NULL == "NULL"
NONE == -1000

(***************************************************************************)
(* Bounds of the model.                                                    *)
(***************************************************************************)
MaxSeq == 3         \* AUTOINCREMENT values handed out per table
MaxClock == 1       \* clock ticks
MaxStamp == 2       \* the latest published timestamp a feed entry carries
MaxEntries == 2     \* entries the feeds serve in all
MaxChunks == 2      \* location annotations appended to a title
MaxJobs == 3        \* postings in a dataset the analyzer runs on

(***************************************************************************)
(* Input domains of the store operations.                                  *)
(***************************************************************************)
Urls == {"https://x/1", "https://x/2"}
TitleA == <<"Acme", " ", "Writer">>
TitleB == <<"Acme", " ", "Writer", " ", "in", " ", "Seattle", ",", " ", "WA">>

\* What one call of upsert_job supplies besides the url: a bare posting and
\* two full postings that name the same feed url under different feed names.
Payloads ==
    { [title |-> TitleA, description |-> NULL, posted_date |-> NONE,
       source |-> NULL, feed |-> NULL, feed_url |-> NULL],
      [title |-> TitleB, description |-> "docs", posted_date |-> 17,
       source |-> "LinkedIn", feed |-> "Feed A", feed_url |-> "https://rss/a"],
      [title |-> TitleA, description |-> "docs", posted_date |-> NONE,
       source |-> "LinkedIn", feed |-> "Feed B", feed_url |-> "https://rss/a"] }
StatusInputs == {"reviewed"}
ScoreInputs == {<<7, "fit">>}

\* FEED_URL, the configured feeds in the order the pass visits them.
FEED_URL == <<"https://rss/a", "https://rss/b">>
FeedUrlSet == {FEED_URL[i] : i \in 1..Len(FEED_URL)}
\* feed.feed.get('title', url)
FeedTitle(url) == IF url = "https://rss/a" THEN "Feed A" ELSE "Feed B"

\* A feed entry: its link, its title, and published_parsed (NONE when the
\* entry carries neither a published nor an updated date).
Links == {"https://x/1", "https://x/2"}
EntryTitle(link) == IF link = "https://x/1" THEN TitleA ELSE TitleB
Entries == [link : Links, pub : {NONE} \cup 1..MaxStamp]
NoFeeds == [u \in FeedUrlSet |-> {}]
\* No title has been given to normalize_title yet.
NoTitle == [title |-> <<>>, once |-> <<>>, twice |-> <<>>, done |-> FALSE]

\* No title has been given to the location filter.
NoLoc == [title |-> <<>>, description |-> <<>>, seattle |-> FALSE,
          remote |-> FALSE, done |-> FALSE]

\* No invocation of run_pipeline is in progress.
NoPipe == [pc |-> "idle", rss_only |-> FALSE, search_only |-> FALSE,
           skip_analyzer |-> FALSE, start |-> <<>>, crashed |-> FALSE,
           failed |-> NULL, search |-> "none", trace |-> <<>>, lost |-> {},
           init_db |-> FALSE, exit |-> NONE, totals |-> <<0, 0>>,
           calls |-> <<>>, ret |-> <<>>]

IdleRun == [pc |-> "idle", since |-> <<>>, seen |-> <<>>, df |-> <<>>, i |-> 0,
            k |-> 0, upserted |-> 0, stored |-> {}, failed |-> {}]

(***************************************************************************)
(* db/schema.py: the CHECK constraints of table jobs.                      *)
(***************************************************************************)
SchemaStatuses == {"new", "reviewed", "applied", "rejected", "offer"}
SchemaLabels == {"Seattle", "Remote", "Review for location"}
CheckStatus(s) == s \in SchemaStatuses
CheckScore_clamped(s) == TRUE
CheckScore(s) == s = NONE \/ (s >= 0 /\ s <= 10)
CheckLabel(l) == l = NULL \/ l \in SchemaLabels

\* A row as INSERT INTO jobs (title, url, description, posted_date,
\* source_id, feed_id) creates it: every other column takes its default.
NewJobRow(id, title, url, description, posted_date, source_id, feed_id, t) ==
    [id |-> id, title |-> title, url |-> url, description |-> description,
     posted_date |-> posted_date, source_id |-> source_id, feed_id |-> feed_id,
     score |-> NONE, score_rationale |-> NULL, status |-> "new",
     location_label |-> NULL, job_type |-> NULL, pay_range |-> NULL,
     contract_duration |-> NULL,
     resume_md |-> NULL, resume_pdf_path |-> NULL,
     cover_letter_md |-> NULL, cover_letter_pdf_path |-> NULL,
     created_at |-> t, updated_at |-> t]

\* Trigger jobs_updated_at: AFTER UPDATE re-stamps updated_at.
Touch(row, t) == [row EXCEPT !.updated_at = t]

JobById(js, id) == CHOOSE j \in js : j.id = id
JobIds(js) == {j.id : j \in js}
JobUrls(js) == {j.url : j \in js}
JobByUrl(js, u) == CHOOSE j \in js : j.url = u

(***************************************************************************)
(* db/feeds.py                                                             *)
(***************************************************************************)
\* get_or_create_source: the id for name, and the table after the call.
GetOrCreateSource_insert(srcs, sq, name) ==
    [id |-> sq + 1, sources |-> srcs \cup {[id |-> sq + 1, name |-> name]},
     seq |-> sq + 1]
GetOrCreateSource(srcs, sq, name) ==
    IF \E s \in srcs : s.name = name
    THEN [id |-> (CHOOSE s \in srcs : s.name = name).id, sources |-> srcs, seq |-> sq]
    ELSE [id |-> sq + 1,
          sources |-> srcs \cup {[id |-> sq + 1, name |-> name]},
          seq |-> sq + 1]

\* get_or_create_feed: lookup by url first, then by name (backfilling a
\* missing url), else a new row.
GetOrCreateFeed_overwrite(fds, sq, name, url, source_id) ==
    IF url # NULL /\ \E f \in fds : f.url = url
    THEN [id |-> (CHOOSE f \in fds : f.url = url).id, feeds |-> fds, seq |-> sq]
    ELSE IF \E f \in fds : f.name = name
    THEN LET row == CHOOSE f \in fds : f.name = name
         IN  [id |-> row.id,
              feeds |-> IF url # NULL
                        THEN (fds \ {row}) \cup {[row EXCEPT !.url = url]}
                        ELSE fds,
              seq |-> sq]
    ELSE [id |-> sq + 1,
          feeds |-> fds \cup {[id |-> sq + 1, name |-> name, url |-> url,
                               source_id |-> source_id, last_fetch |-> NONE]},
          seq |-> sq + 1]
GetOrCreateFeed(fds, sq, name, url, source_id) ==
    IF url # NULL /\ \E f \in fds : f.url = url
    THEN [id |-> (CHOOSE f \in fds : f.url = url).id, feeds |-> fds, seq |-> sq]
    ELSE IF \E f \in fds : f.name = name
    THEN LET row == CHOOSE f \in fds : f.name = name
         IN  [id |-> row.id,
              feeds |-> IF url # NULL /\ row.url = NULL
                        THEN (fds \ {row}) \cup {[row EXCEPT !.url = url]}
                        ELSE fds,
              seq |-> sq]
    ELSE [id |-> sq + 1,
          feeds |-> fds \cup {[id |-> sq + 1, name |-> name, url |-> url,
                               source_id |-> source_id, last_fetch |-> NONE]},
          seq |-> sq + 1]

SourceName(srcs, id) ==
    IF \E s \in srcs : s.id = id THEN (CHOOSE s \in srcs : s.id = id).name ELSE NULL
FeedName(fds, id) ==
    IF \E f \in fds : f.id = id THEN (CHOOSE f \in fds : f.id = id).name ELSE NULL

(***************************************************************************)
(* db/jobs.py                                                              *)
(***************************************************************************)
\* The columns ON CONFLICT(url) DO UPDATE SET assigns.
UpsertConflictRow_replace(row, title, description, posted_date, source_id, feed_id, t) ==
    NewJobRow(row.id, title, row.url, description, posted_date, source_id, feed_id, t)
UpsertConflictRow_coalesce(row, title, description, posted_date, source_id, feed_id, t) ==
    Touch([row EXCEPT !.title = title,
              !.description = IF description = NULL THEN @ ELSE description,
              !.posted_date = IF posted_date = NONE THEN @ ELSE posted_date,
              !.source_id = IF source_id = NONE THEN @ ELSE source_id,
              !.feed_id = IF feed_id = NONE THEN @ ELSE feed_id], t)
UpsertConflictRow(row, title, description, posted_date, source_id, feed_id, t) ==
    Touch([row EXCEPT !.title = title, !.description = description,
                      !.posted_date = posted_date, !.source_id = source_id,
                      !.feed_id = feed_id], t)

\* jobs.url is UNIQUE: ON CONFLICT(url) fires iff a row holds the url.
UrlConflict_off(js, url) == FALSE
UrlConflict(js, url) == url \in JobUrls(js)

\* upsert_job on a database <<jobs, sources, feeds, seq>>: the database after
\* the call and the id of the returned row.  SQLite takes the next
\* AUTOINCREMENT value for the INSERT before it detects the conflict, so the
\* jobs counter advances on the update path too.
UpsertJob(db, title, url, description, posted_date, source, feed, feed_url, t) ==
    LET s == IF source # NULL
             THEN GetOrCreateSource(db.sources, db.seq.sources, source)
             ELSE [id |-> NONE, sources |-> db.sources, seq |-> db.seq.sources]
        f == IF feed # NULL
             THEN GetOrCreateFeed(db.feeds, db.seq.feeds, feed, feed_url, s.id)
             ELSE [id |-> NONE, feeds |-> db.feeds, seq |-> db.seq.feeds]
        existed == UrlConflict(db.jobs, url)
        old == JobByUrl(db.jobs, url)
        row == IF existed
               THEN UpsertConflictRow(old, title, description, posted_date, s.id, f.id, t)
               ELSE NewJobRow(db.seq.jobs + 1, title, url, description,
                              posted_date, s.id, f.id, t)
    IN  [jobs |-> IF existed THEN (db.jobs \ {old}) \cup {row} ELSE db.jobs \cup {row},
         sources |-> s.sources,
         feeds |-> f.feeds,
         seq |-> [jobs |-> db.seq.jobs + 1, sources |-> s.seq, feeds |-> f.seq],
         ret |-> row.id]

DB == [jobs |-> jobs, sources |-> sources, feeds |-> feeds, seq |-> seq]

NoOp == [op |-> "init", id |-> NONE, url |-> NULL, existed |-> FALSE,
         args |-> <<>>, ret |-> NONE]

upsert_job(p, url) ==
    /\ seq.jobs < MaxSeq
    /\ LET r == UpsertJob(DB, p.title, url, p.description, p.posted_date,
                          p.source, p.feed, p.feed_url, now)
       IN  /\ jobs' = r.jobs
           /\ sources' = r.sources
           /\ feeds' = r.feeds
           /\ seq' = r.seq
           /\ last' = [op |-> "upsert_job", id |-> r.ret, url |-> url,
                       existed |-> url \in JobUrls(jobs),
                       args |-> p,
                       ret |-> r.ret]
    /\ UNCHANGED <<now, remote, run, nt, pipe, loc>>

\* UPDATE jobs SET status = ? WHERE id = ? RETURNING *: the CHECK constraint
\* raises for a status outside the schema's list and nothing is written.
update_status(job_id, status) ==
    /\ IF job_id \in JobIds(jobs) /\ CheckStatus(status)
       THEN jobs' = (jobs \ {JobById(jobs, job_id)})
                    \cup {Touch([JobById(jobs, job_id) EXCEPT !.status = status], now)}
       ELSE UNCHANGED jobs
    /\ last' = [op |-> "update_status", id |-> job_id, url |-> NULL,
                existed |-> job_id \in JobIds(jobs), args |-> <<status>>,
                ret |-> IF job_id \in JobIds(jobs) /\ CheckStatus(status)
                        THEN job_id ELSE NONE]
    /\ UNCHANGED <<sources, feeds, seq, now, remote, run, nt, pipe, loc>>

\* UPDATE jobs SET score = ?, score_rationale = ? WHERE id = ? RETURNING *
update_score(job_id, score, rationale) ==
    /\ IF job_id \in JobIds(jobs) /\ CheckScore(score)
       THEN jobs' = (jobs \ {JobById(jobs, job_id)})
                    \cup {Touch([JobById(jobs, job_id) EXCEPT !.score = score,
                                     !.score_rationale = rationale], now)}
       ELSE UNCHANGED jobs
    /\ last' = [op |-> "update_score", id |-> job_id, url |-> NULL,
                existed |-> job_id \in JobIds(jobs), args |-> <<score, rationale>>,
                ret |-> IF job_id \in JobIds(jobs) /\ CheckScore(score)
                        THEN job_id ELSE NONE]
    /\ UNCHANGED <<sources, feeds, seq, now, remote, run, nt, pipe, loc>>

\* DELETE FROM jobs WHERE id = ?; returns rowcount > 0.
DeleteJob_upto(js, job_id) == {j \in js : j.id > job_id}
DeleteJob(js, job_id) == {j \in js : j.id # job_id}

delete_job(job_id) ==
    /\ jobs' = DeleteJob(jobs, job_id)
    /\ last' = [op |-> "delete_job", id |-> job_id, url |-> NULL,
                existed |-> job_id \in JobIds(jobs), args |-> <<>>,
                ret |-> IF job_id \in JobIds(jobs) THEN 1 ELSE 0]
    /\ UNCHANGED <<sources, feeds, seq, now, remote, run, nt, pipe, loc>>

\* The wall clock advances between calls.
Tick ==
    /\ now < MaxClock
    /\ now' = now + 1
    /\ UNCHANGED <<jobs, sources, feeds, seq, last, remote, run, nt, pipe, loc>>

(***************************************************************************)
(* Spec: the job store under any sequence of its operations.               *)
(***************************************************************************)
Init ==
    /\ jobs = {}
    /\ sources = {}
    /\ feeds = {}
    /\ seq = [jobs |-> 0, sources |-> 0, feeds |-> 0]
    /\ now = 0
    /\ last = NoOp
    /\ remote = NoFeeds
    /\ run = IdleRun
    /\ nt = NoTitle /\ pipe = NoPipe /\ loc = NoLoc

Next ==
    \/ \E p \in Payloads, u \in Urls : upsert_job(p, u)
    \/ \E id \in 1..MaxSeq, s \in StatusInputs : update_status(id, s)
    \/ \E id \in 1..MaxSeq, s \in ScoreInputs : update_score(id, s[1], s[2])
    \/ \E id \in 1..MaxSeq : delete_job(id)
    \/ Tick

Spec == Init /\ [][Next]_vars

\* get_or_create_source and get_or_create_feed called directly
\* (db/smoke_test.py does).
get_or_create_source(name) ==
    /\ seq.sources < MaxSeq
    /\ LET r == GetOrCreateSource(sources, seq.sources, name)
       IN  /\ sources' = r.sources
           /\ seq' = [seq EXCEPT !.sources = r.seq]
           /\ last' = [op |-> "get_or_create_source", id |-> r.id, url |-> NULL,
                       existed |-> \E s \in sources : s.name = name,
                       args |-> <<name>>, ret |-> r.id]
    /\ UNCHANGED <<jobs, feeds, now, remote, run, nt, pipe, loc>>

get_or_create_feed(name, url, source_id) ==
    /\ seq.feeds < MaxSeq
    /\ LET r == GetOrCreateFeed(feeds, seq.feeds, name, url, source_id)
       IN  /\ feeds' = r.feeds
           /\ seq' = [seq EXCEPT !.feeds = r.seq]
           /\ last' = [op |-> "get_or_create_feed", id |-> r.id, url |-> url,
                       existed |-> \E f \in feeds : f.name = name \/ (url # NULL /\ f.url = url),
                       args |-> <<name, url>>, ret |-> r.id]
    /\ UNCHANGED <<jobs, sources, now, remote, run, nt, pipe, loc>>

(***************************************************************************)
(* SpecTriage: the triage writes against the CHECK constraints, on a store *)
(* that init_db created and one upsert filled.                             *)
(***************************************************************************)
TriageStatuses == SchemaStatuses \cup {"interested", "passed", "archived"}
TriageScores == {-1, 0, 10, 11}
Rationales == {NULL, "fit"}
ProbeUrls == {"https://x/1", "https://test/probe"}
ProbeStatuses == {"new", "reviewed", "interested", "invalid"}
ProbeScores == {NONE, 10, 11}

\* INSERT INTO jobs (title, url, status, score) VALUES ('Test', ?, ?, ?): a
\* row that breaks a CHECK or the UNIQUE constraint raises and nothing is
\* stored.
insert_job(url, status, score) ==
    LET ok == CheckStatus(status) /\ CheckScore(score) /\ ~UrlConflict(jobs, url)
        row == [NewJobRow(seq.jobs + 1, <<"Test">>, url, NULL, NONE, NONE, NONE, now)
                   EXCEPT !.status = status, !.score = score]
    IN  /\ IF ok
           THEN /\ jobs' = jobs \cup {row}
                /\ seq' = [seq EXCEPT !.jobs = seq.jobs + 1]
           ELSE UNCHANGED <<jobs, seq>>
        /\ last' = [op |-> "insert_job", id |-> IF ok THEN row.id ELSE NONE,
                    url |-> url, existed |-> url \in JobUrls(jobs),
                    args |-> <<status, score>>,
                    ret |-> IF ok THEN row.id ELSE NONE]
        /\ UNCHANGED <<sources, feeds, now, remote, run, nt, pipe, loc>>

InitTriage ==
    /\ LET p == CHOOSE q \in Payloads : q.feed = "Feed A"
           r == UpsertJob([jobs |-> {}, sources |-> {}, feeds |-> {},
                           seq |-> [jobs |-> 0, sources |-> 0, feeds |-> 0]],
                          p.title, "https://x/1", p.description, p.posted_date,
                          p.source, p.feed, p.feed_url, 1)
       IN  /\ jobs = r.jobs
           /\ sources = r.sources
           /\ feeds = r.feeds
           /\ seq = r.seq
    /\ now = 1 /\ last = NoOp /\ remote = NoFeeds /\ run = IdleRun
    /\ nt = NoTitle /\ pipe = NoPipe /\ loc = NoLoc

NextTriage ==
    \/ \E id \in 1..MaxSeq, s \in TriageStatuses : update_status(id, s)
    \/ \E id \in 1..MaxSeq, s \in TriageScores, r \in Rationales :
          update_score(id, s, r)
    \/ \E u \in ProbeUrls, s \in ProbeStatuses, sc \in ProbeScores :
          insert_job(u, s, sc)

SpecTriage == InitTriage /\ [][NextTriage]_vars

(***************************************************************************)
(* rss_job_feed.py and run_pipeline.py: the RSS fetch pass.                *)
(***************************************************************************)
\* get_all_last_fetches: feed url -> last_fetch, for the feeds that have both.
\* A feed url without a recorded timestamp maps to NONE (since.get(url)).
GetAllLastFetches(fds) ==
    [u \in FeedUrlSet |->
        IF \E f \in fds : f.url = u /\ f.last_fetch # NONE
        THEN (CHOOSE f \in fds : f.url = u /\ f.last_fetch # NONE).last_fetch
        ELSE NONE]

\* get_last_fetch
GetLastFetch(fds, u) ==
    IF \E f \in fds : f.url = u THEN (CHOOSE f \in fds : f.url = u).last_fetch ELSE NONE

\* The published date of an entry: published_parsed, else datetime.now().
PubDate(entry, t) == IF entry.pub # NONE THEN entry.pub ELSE t

\* The per-feed filter of fetch_and_parse_jobs: an entry at or before the
\* cutoff is skipped; without a cutoff every entry is kept.
KeepEntry_all(cutoff, pub_date) == TRUE
KeepEntry(cutoff, pub_date) == ~(cutoff # NONE /\ pub_date <= cutoff)

\* all_jobs: one row per kept entry of every feed.
AllJobs(rem, since, t) ==
    UNION { { [title |-> EntryTitle(e.link), url |-> e.link, description |-> "docs",
               posted |-> PubDate(e, t), source |-> FeedTitle(u),
               feed |-> FeedTitle(u), feed_url |-> u]
              : e \in {x \in rem[u] : KeepEntry(since[u], PubDate(x, t))} }
            : u \in FeedUrlSet }

\* sort_values('Posted Date', ascending=False): the orders of the rows with
\* newer rows first (rows of equal date in any order).
SortedOrders(rows) ==
    { s \in [1..Cardinality(rows) -> rows] :
        /\ \A i, j \in 1..Cardinality(rows) : i # j => s[i] # s[j]
        /\ \A i, j \in 1..Cardinality(rows) : i < j => s[i].posted >= s[j].posted }

\* drop_duplicates(subset=['Job Title', 'URL'], keep='first')
RECURSIVE DropDuplicates(_)
DropDuplicates(s) ==
    IF s = <<>> THEN <<>>
    ELSE LET init == DropDuplicates(SubSeq(s, 1, Len(s) - 1))
             x == s[Len(s)]
         IN  IF \E i \in 1..Len(init) : init[i].title = x.title /\ init[i].url = x.url
             THEN init
             ELSE Append(init, x)

\* fetch_and_parse_jobs(FEED_URL, since=since): the possible data frames.
FetchAndParseJobs(rem, since, t) ==
    { DropDuplicates(s) : s \in SortedOrders(AllJobs(rem, since, t)) }

\* strftime("%Y-%m-%d"): the day of a timestamp (two ticks a day).
DateOf(ts) == ts \div 2

\* set_last_fetch: UPDATE feeds SET last_fetch WHERE url, else INSERT a row
\* named after the url.  feeds.name is UNIQUE: when a feed already carries
\* the url as its name the INSERT raises sqlite3.IntegrityError and nothing
\* is written.
SetLastFetch(fds, sq, feed_url, ts) ==
    IF \E f \in fds : f.url = feed_url
    THEN [feeds |-> {IF f.url = feed_url THEN [f EXCEPT !.last_fetch = ts] ELSE f : f \in fds},
          seq |-> sq, raised |-> FALSE]
    ELSE IF \E f \in fds : f.name = feed_url
    THEN [feeds |-> fds, seq |-> sq, raised |-> TRUE]
    ELSE [feeds |-> fds \cup {[id |-> sq + 1, name |-> feed_url, url |-> feed_url,
                               source_id |-> NONE, last_fetch |-> ts]},
          seq |-> sq + 1, raised |-> FALSE]

RECURSIVE SeqMax(_)
SeqMax(s) == IF Len(s) = 1 THEN s[1]
             ELSE IF s[1] >= SeqMax(Tail(s)) THEN s[1] ELSE SeqMax(Tail(s))

\* jobs_df[jobs_df["Feed URL"] == url]["Posted Date"]
FeedRowDates(df, url) ==
    LET rows == SelectSeq(df, LAMBDA r : r.feed_url = url)
    IN  [i \in 1..Len(rows) |-> rows[i].posted]

\* The number of entries the feeds serve.
Served == Cardinality(UNION {{<<u, e>> : e \in remote[u]} : u \in FeedUrlSet})

\* A feed publishes an entry.
Publish(u, e) ==
    /\ run.pc \in {"idle", "done"}
    /\ e \notin remote[u]
    /\ \A x \in remote[u] : x.link # e.link
    /\ Served < MaxEntries
    /\ remote' = [remote EXCEPT ![u] = @ \cup {e}]
    /\ run' = IdleRun
    /\ last' = NoOp
    /\ UNCHANGED <<jobs, sources, feeds, seq, now, nt, pipe, loc>>

\* run_rss_fetch, lines 37-46: load the cursors, fetch and filter the feeds.
FetchStart ==
    /\ run.pc \in {"idle", "done"}
    /\ LET since == GetAllLastFetches(feeds)
       IN  \E df \in FetchAndParseJobs(remote, since, now) :
             /\ seq.jobs + Len(df) <= MaxSeq
             /\ run' = [pc |-> IF df = <<>> THEN "done" ELSE "upsert",
                        since |-> since, seen |-> remote, df |-> df, i |-> 1, k |-> 1,
                        upserted |-> 0, stored |-> {}, failed |-> {}]
             /\ last' = [NoOp EXCEPT !.op = "run_rss_fetch", !.ret = <<Len(df), 0>>]
    /\ UNCHANGED <<jobs, sources, feeds, seq, now, remote, nt, pipe, loc>>

\* run_rss_fetch, lines 50-65: upsert one row of the data frame.  upsert_job
\* either commits the row or raises (sqlite3.Error), which the loop catches.
UpsertRow(ok) ==
    /\ run.pc = "upsert"
    /\ LET row == run.df[run.i]
           r == UpsertJob(DB, row.title, row.url, row.description, DateOf(row.posted),
                          row.source, row.feed, row.feed_url, now)
           more == run.i < Len(run.df)
       IN  /\ IF ok
              THEN /\ jobs' = r.jobs /\ sources' = r.sources
                   /\ feeds' = r.feeds /\ seq' = r.seq
              ELSE UNCHANGED <<jobs, sources, feeds, seq>>
           /\ run' = [run EXCEPT !.pc = IF more THEN "upsert" ELSE "cursor",
                                 !.i = @ + 1,
                                 !.upserted = IF ok THEN @ + 1 ELSE @,
                                 !.stored = IF ok THEN @ \cup {row.url} ELSE @,
                                 !.failed = IF ok THEN @ ELSE @ \cup {row}]
    /\ UNCHANGED <<now, last, remote, nt, pipe, loc>>

\* Whether the pass records a cursor for feed url: it does whenever the data
\* frame holds a row of that feed.
RecordsCursor(r, url) == FeedRowDates(r.df, url) # <<>>

\* run_rss_fetch, lines 67-75: record the newest entry timestamp of one feed.
SetCursor ==
    /\ run.pc = "cursor"
    /\ LET url == FEED_URL[run.k]
           r == IF RecordsCursor(run, url)
                THEN SetLastFetch(feeds, seq.feeds, url, SeqMax(FeedRowDates(run.df, url)))
                ELSE [feeds |-> feeds, seq |-> seq.feeds]
           more == run.k < Len(FEED_URL)
       IN  /\ feeds' = r.feeds
           /\ seq' = [seq EXCEPT !.feeds = r.seq]
           /\ run' = [run EXCEPT !.pc = IF more THEN "cursor" ELSE "done", !.k = @ + 1]
           /\ last' = IF more THEN last
                      ELSE [last EXCEPT !.ret = <<Len(run.df), run.upserted>>]
    /\ UNCHANGED <<jobs, sources, now, remote, nt, pipe, loc>>

\* set_last_fetch called directly (db/smoke_test.py does).
set_last_fetch(feed_url, ts) ==
    /\ run.pc \in {"idle", "done"}
    /\ LET r == SetLastFetch(feeds, seq.feeds, feed_url, ts)
       IN  /\ feeds' = r.feeds
           /\ seq' = [seq EXCEPT !.feeds = r.seq]
           /\ last' = [NoOp EXCEPT !.op = "set_last_fetch", !.url = feed_url,
                                   !.args = <<ts>>,
                                   !.existed = \E f \in feeds : f.url = feed_url,
                                   !.ret = IF r.raised THEN 1 ELSE NONE]
    /\ run' = IdleRun
    /\ UNCHANGED <<jobs, sources, now, remote, nt, pipe, loc>>

(***************************************************************************)
(* SpecFetch: feeds publish entries, the pipeline runs fetch passes, and    *)
(* set_last_fetch is called directly.                                      *)
(***************************************************************************)
NextFetch ==
    \/ \E u \in FeedUrlSet, e \in Entries : Publish(u, e)
    \/ FetchStart
    \/ \E ok \in BOOLEAN : UpsertRow(ok)
    \/ SetCursor
    \/ \E u \in FeedUrlSet, ts \in 1..MaxStamp : set_last_fetch(u, ts)

SpecFetch == Init /\ [][NextFetch]_vars

(***************************************************************************)
(* SpecFeeds: the sources and feeds tables under upserts, direct lookups   *)
(* and cursor writes.  A feed may be named after a url, as a feed without  *)
(* a title is.                                                             *)
(***************************************************************************)
NextFeeds ==
    \/ get_or_create_source("LinkedIn")
    \/ \E name \in {"Feed A", "https://rss/a"}, url \in {NULL} \cup FeedUrlSet,
          sid \in {NONE} \cup {x.id : x \in sources} :
          get_or_create_feed(name, url, sid)
    \/ \E u \in FeedUrlSet, ts \in 1..MaxStamp : set_last_fetch(u, ts)
    \/ \E p \in Payloads : upsert_job(p, "https://x/1")

SpecFeeds == Init /\ [][NextFeeds]_vars

(***************************************************************************)
(* job_analyzer.py: normalize_title.  The three re.sub calls are modelled  *)
(* on lexemes: \w{2} is a word of two characters, \s one blank, [\w\s]+ a  *)
(* non-empty run of words and blanks.  Each pattern ends in $, so a match  *)
(* runs to the end of the title and re.sub cuts the title at the leftmost  *)
(* position where the pattern matches.                                     *)
(***************************************************************************)
Word2 == {"in", "WA", "OR"}
WordN == {"Acme", "Beta", "Writer", "Seattle", "Portland", "United", "States",
          "Washington", "Test"}
IsWord(tok) == tok \in Word2 \cup WordN
IsSpace(tok) == tok = " "

\* t[a..b] is a (possibly empty) run of blanks / of words and blanks.
Blanks(t, a, b) == \A x \in a..b : IsSpace(t[x])
WordsBlanks(t, a, b) == \A x \in a..b : IsWord(t[x]) \/ IsSpace(t[x])

\* [\w\s]+,\s*\w{2} matches t[b..d]: words and blanks, a comma at c, blanks,
\* and a two-character word at d.
CityState(t, b, d) ==
    \E c \in (b + 1)..(d - 1) :
        /\ WordsBlanks(t, b, c - 1)
        /\ t[c] = ","
        /\ Blanks(t, c + 1, d - 1)
        /\ t[d] \in Word2

\* (\s*-.*)?$ matches from position d + 1 on: the end of the title, or
\* blanks, a dash and anything.
DashTail(t, d) ==
    \/ d = Len(t)
    \/ \E x \in (d + 1)..Len(t) : Blanks(t, d + 1, x - 1) /\ t[x] = "-"

\* \s+in\s+[\w\s]+,\s*\w{2}(\s*-.*)?$ matches at position i.
MatchInCityState(t, i) ==
    \E a \in (i + 1)..Len(t) : \E d \in (a + 1)..Len(t) :
        /\ Blanks(t, i, a - 1)
        /\ t[a] = "in"
        /\ a + 1 <= Len(t) /\ IsSpace(t[a + 1])
        /\ CityState(t, a + 2, d)
        /\ DashTail(t, d)

\* \s*\([\w\s]+,\s*\w{2}\)\s*$ matches at position i.
MatchParenCityState(t, i) ==
    \E a \in i..Len(t) : \E d \in (a + 1)..Len(t) :
        /\ Blanks(t, i, a - 1)
        /\ t[a] = "("
        /\ CityState(t, a + 1, d)
        /\ d + 1 <= Len(t) /\ t[d + 1] = ")"
        /\ Blanks(t, d + 2, Len(t))

\* \s+in\s+United States$ matches at position i.
MatchInUnitedStates(t, i) ==
    \E a \in (i + 1)..Len(t) : \E b \in (a + 2)..Len(t) :
        /\ Blanks(t, i, a - 1)
        /\ t[a] = "in"
        /\ Blanks(t, a + 1, b - 1)
        /\ b + 2 = Len(t)
        /\ t[b] = "United" /\ t[b + 1] = " " /\ t[b + 2] = "States"

\* re.sub(pattern, "", t) for a pattern anchored at the end, given the
\* positions where the pattern matches: the title is cut at the leftmost.
CutAt(t, matches) ==
    IF matches = {} THEN t
    ELSE SubSeq(t, 1, (CHOOSE i \in matches : \A j \in matches : i <= j) - 1)

\* str.strip()
RECURSIVE Strip(_)
Strip(t) ==
    IF t = <<>> THEN t
    ELSE IF IsSpace(t[1]) THEN Strip(Tail(t))
    ELSE IF IsSpace(t[Len(t)]) THEN Strip(SubSeq(t, 1, Len(t) - 1))
    ELSE t

normalize_title(title) ==
    LET t1 == CutAt(title, {i \in 1..Len(title) : MatchInCityState(title, i)})
        t2 == CutAt(t1, {i \in 1..Len(t1) : MatchParenCityState(t1, i)})
        t3 == CutAt(t2, {i \in 1..Len(t2) : MatchInUnitedStates(t2, i)})
    IN  Strip(t3)

\* The titles normalize_title is applied to: a role text followed by up to
\* MaxChunks location annotations.
RoleTexts == {<<"Acme", " ", "Writer">>, <<"Writer">>,
              <<"Writer", " ", "in", " ", "Test">>}
Annotations ==
    { <<" ", "in", " ", "Seattle", ",", " ", "WA">>,
      <<" ", "in", " ", "Portland", ",", " ", "OR", " ", "-", " ", "Acme">>,
      <<" ", "(", "Seattle", ",", " ", "WA", ")">>,
      <<" ", "in", " ", "United", " ", "States">>,
      <<" ", "in", " ", "Seattle", ",", " ", "Washington">>,
      <<" ">> }
RECURSIVE Annotated(_, _)
Annotated(base, n) ==
    IF n = 0 THEN {base}
    ELSE Annotated(base, n - 1)
         \cup {t \o a : t \in Annotated(base, n - 1), a \in Annotations}
InputTitles == UNION {Annotated(b, MaxChunks) : b \in RoleTexts}

\* normalize_title applied to a title, and again to its result.
Normalize ==
    /\ ~nt.done
    /\ nt' = [nt EXCEPT !.once = normalize_title(nt.title),
                        !.twice = normalize_title(normalize_title(nt.title)),
                        !.done = TRUE]
    /\ UNCHANGED <<jobs, sources, feeds, seq, now, last, remote, run, pipe, loc>>

InitNorm ==
    /\ jobs = {} /\ sources = {} /\ feeds = {}
    /\ seq = [jobs |-> 0, sources |-> 0, feeds |-> 0]
    /\ now = 0 /\ last = NoOp /\ remote = NoFeeds /\ run = IdleRun
    /\ nt \in {[NoTitle EXCEPT !.title = t] : t \in InputTitles}
    /\ pipe = NoPipe /\ loc = NoLoc

NextNorm == Normalize

SpecNorm == InitNorm /\ [][NextNorm]_vars

(***************************************************************************)
(* filter_jobs_by_location.py: is_seattle and is_truly_remote.  A title or *)
(* description is a sequence of lexemes: pieces of words, blanks, newlines *)
(* and punctuation marks.  Adjacent pieces of words form one word, so      *)
(* <<"New", "Kent">> is the word NewKent.  <<NULL>> stands for None.        *)
(***************************************************************************)
\* str.lower / re.IGNORECASE on the lexemes that contain capitals.
Lower(tok) ==
    LET caps == {<<"Seattle", "seattle">>, <<"Bellevue", "bellevue">>,
                 <<"Redmond", "redmond">>, <<"Kirkland", "kirkland">>,
                 <<"Bothell", "bothell">>, <<"Renton", "renton">>,
                 <<"Kent", "kent">>, <<"KENT", "kent">>,
                 <<"Federal", "federal">>, <<"Way", "way">>,
                 <<"Sammamish", "sammamish">>, <<"Issaquah", "issaquah">>,
                 <<"Tacoma", "tacoma">>, <<"Olympia", "olympia">>,
                 <<"Portland", "portland">>, <<"New", "new">>,
                 <<"WA", "wa">>, <<"Wa", "wa">>, <<"OH", "oh">>,
                 <<"Writer", "writer">>, <<"Remote", "remote">>,
                 <<"REMOTE", "remote">>, <<"USA", "usa">>, <<"Not", "not">>,
                 <<"Location", "location">>, <<"Operations", "operations">>,
                 <<"Sensing", "sensing">>, <<"Great", "great">>}
    IN  IF \E c \in caps : c[1] = tok
        THEN (CHOOSE c \in caps : c[1] = tok)[2]
        ELSE tok

\* pattern.search(t) for a pattern compiled with re.IGNORECASE.  pats is the
\* set of alternatives of the pattern; an alternative is a sequence whose
\* elements are {"\\b"}, {"\\s*"}, {"\\s+"}, {".*"} or a set of lower-case
\* lexemes, one of which must come next.
Search(t, pats) ==
    LET IsW(x) == x \in 1..Len(t)
                  /\ t[x] \notin {" ", "\n", ",", "(", ")", "-", ":", ".", "%"}
        IsS(a, b) == \A x \in a..b : t[x] \in {" ", "\n"}
        RECURSIVE M(_, _, _)
        M(i, p, j) ==
            IF j > Len(p) THEN TRUE
            ELSE IF p[j] = {"\\b"} THEN IsW(i - 1) # IsW(i) /\ M(i, p, j + 1)
            ELSE IF p[j] = {"\\s*"}
            THEN \E k \in i..(Len(t) + 1) : IsS(i, k - 1) /\ M(k, p, j + 1)
            ELSE IF p[j] = {"\\s+"}
            THEN \E k \in (i + 1)..(Len(t) + 1) : IsS(i, k - 1) /\ M(k, p, j + 1)
            ELSE IF p[j] = {".*"}
            THEN \E k \in i..(Len(t) + 1) :
                     /\ \A x \in i..(k - 1) : t[x] # "\n"
                     /\ M(k, p, j + 1)
            ELSE i <= Len(t) /\ Lower(t[i]) \in p[j] /\ M(i + 1, p, j + 1)
    IN  \E p \in pats, i \in 1..(Len(t) + 1) : M(i, p, 1)

SEATTLE_METRO ==
    {<<"Seattle">>, <<"Bellevue">>, <<"Redmond">>, <<"Kirkland">>,
     <<"Bothell">>, <<"Renton">>, <<"Kent">>, <<"Federal", " ", "Way">>,
     <<"Sammamish">>, <<"Issaquah">>, <<"Tacoma">>, <<"Olympia">>}

REMOTE_POSITIVE ==
    {<<{"fully"}, {"\\s+"}, {"remote"}>>,
     <<{"location"}, {"\\s*"}, {":"}, {"\\s*"}, {"remote"}>>,
     <<{"role"}, {"\\s+"}, {"type", "is"}, {"\\s*"}, {":"}, {"\\s*"},
       {"remote"}>>,
     <<{"remote"}, {"\\s+"}, {"position", "role", "work", "opportunity", "("}>>,
     <<{"\\b"}, {"remote"}, {"\\b"}, {".*"}, {"\\b"}, {"usa"}, {"\\b"}>>,
     <<{"\\b"}, {"usa"}, {"\\b"}, {".*"}, {"\\b"}, {"remote"}, {"\\b"}>>,
     <<{"100"}, {"%"}, {"\\s+"}, {"remote"}>>,
     <<{"completely", "entirely"}, {"\\s+"}, {"remote"}>>,
     <<{"listed"}, {"\\s+"}, {"as"}, {"\\s+"}, {"remote"}>>,
     <<{"\\b"}, {"remote"}, {"\\s+"}, {"if"}, {"\\s+"}, {"located"}>>}

REMOTE_NEGATIVE ==
    {<<{"not"}, {"\\s+"}, {"remote"}>>,
     <<{"not"}, {"\\s+"}, {"a"}, {"\\s+"}, {"remote"}>>,
     <<{"not"}, {"\\s+"}, {"offer"}, {"\\s+"}, {"remote"}>>,
     <<{"remote"}, {"\\s+"},
       {"operation", "operations", "assistance", "sensing", "control"}>>}

is_seattle_any_state(title) ==
    Search(title, {<<{"\\b"}>> \o [x \in 1..Len(c) |-> {Lower(c[x])}]
                       \o <<{","}, {"\\s*"}, {"wa", "oh"}, {"\\b"}>> :
                   c \in SEATTLE_METRO})

is_seattle(title) ==
    LET _SEATTLE_RE ==
            {<<{"\\b"}>> \o [x \in 1..Len(c) |-> {Lower(c[x])}]
                 \o <<{","}, {"\\s*"}, {"wa"}, {"\\b"}>> : c \in SEATTLE_METRO}
    IN  Search(title, _SEATTLE_RE)

is_truly_remote_by_description(description, title) ==
    IF description = <<NULL>> \/ description = <<>> THEN FALSE
    ELSE Search(description, REMOTE_POSITIVE)
         /\ ~Search(description, REMOTE_NEGATIVE)

is_truly_remote(description, title) ==
    LET _REMOTE_TITLE_RE == {<<{"\\b"}, {"remote"}, {"\\b"}>>}
    IN  IF /\ title # <<NULL>> /\ title # <<>>
           /\ Search(title, _REMOTE_TITLE_RE)
           /\ ~Search(title, REMOTE_NEGATIVE)
        THEN TRUE
        ELSE IF description = <<NULL>> \/ description = <<>> THEN FALSE
        ELSE Search(description, REMOTE_POSITIVE)
             /\ ~Search(description, REMOTE_NEGATIVE)

\* The filter is applied to one title and one description.
LocationFilter ==
    /\ ~loc.done
    /\ loc' = [loc EXCEPT !.seattle = is_seattle(loc.title),
                          !.remote = is_truly_remote(loc.description, loc.title),
                          !.done = TRUE]
    /\ UNCHANGED <<jobs, sources, feeds, seq, now, last, remote, run, nt, pipe>>

\* Titles: a lead, a city, a separator, a state and a tail, and titles that
\* carry the word Remote.  Descriptions: None, the empty string, and texts
\* with and without the phrases of the remote patterns.
InitFilter ==
    LET titles ==
            {a \o c \o s \o st \o z :
                a \in {<<>>, <<"Writer", " ", "in", " ">>, <<"New">>},
                c \in {<<"Kent">>, <<"KENT">>, <<"Federal", " ", "Way">>,
                       <<"Olympia">>, <<"Portland">>},
                s \in {<<",">>, <<",", " ">>, <<" ">>},
                st \in {<<"WA">>, <<"Wa">>, <<"OH">>, <<"WA", "shington">>, <<>>},
                z \in {<<>>, <<" ", "-", " ", "Remote">>}}
            \cup {<<>>,
                  <<"Remote", " ", "Operations", " ", "Writer">>,
                  <<"Remote", " ", "Sensing">>,
                  <<"Writer", " ", "(", "REMOTE", ")">>,
                  <<"Remote", "ly", " ", "Writer">>,
                  <<"Not", " ", "a", " ", "Remote", " ", "role">>}
        descriptions ==
            {<<NULL>>, <<>>,
             <<"Great", " ", "office", ".">>,
             <<"fully", " ", "remote", " ", "position">>,
             <<"care", "fully", " ", "remote", "ly">>,
             <<"Location", ":", " ", "Remote">>,
             <<"role", " ", "is", ":", " ", "remote">>,
             <<"Not", " ", "a", " ", "remote", " ", "position">>,
             <<"not", " ", "offer", " ", "remote", " ", "work">>,
             <<"fully", " ", "remote", ".", " ", "Remote", " ", "sensing">>,
             <<"remote", " ", "in", " ", "USA">>,
             <<"remote", "\n", "USA">>,
             <<"USA", " ", "-", " ", "remote">>,
             <<"100", "%", " ", "remote">>,
             <<"listed", " ", "as", " ", "remote">>,
             <<"Remote", " ", "if", " ", "located">>,
             <<"remote">>}
    IN  /\ jobs = {} /\ sources = {} /\ feeds = {}
        /\ seq = [jobs |-> 0, sources |-> 0, feeds |-> 0]
        /\ now = 0 /\ last = NoOp /\ remote = NoFeeds /\ run = IdleRun
        /\ nt = NoTitle /\ pipe = NoPipe
        /\ loc \in {[NoLoc EXCEPT !.title = t, !.description = d] :
                       t \in titles, d \in descriptions}

NextFilter == LocationFilter

SpecFilter == InitFilter /\ [][NextFilter]_vars

(***************************************************************************)
(* job_analyzer.py: deduplicate_jobs.  posted_date is a day number (the    *)
(* proleptic ordinal of the date), so 739617 is 2026-01-01, 739626 is      *)
(* 2026-01-10 and 739662 is 2026-02-15.                                    *)
(***************************************************************************)
TitleP == <<"Acme", " ", "Writer", " ", "(", "Seattle", ",", " ", "WA", ")">>
TitleBeta == <<"Beta", " ", "Writer">>

\* The postings a dataset is made of: three postings of one role with
\* different location annotations, dates and descriptions, and a reviewed
\* posting of another role without date or description.
Postings ==
    { [title |-> TitleB, posted_date |-> 739617, description |-> "docs",
       status |-> "new"],
      [title |-> TitleA, posted_date |-> 739626, description |-> "long docs",
       status |-> "new"],
      [title |-> TitleP, posted_date |-> 739662, description |-> "docs",
       status |-> "new"],
      [title |-> TitleBeta, posted_date |-> NONE, description |-> NULL,
       status |-> "reviewed"] }
PostingUrls == <<"https://x/1", "https://x/2", "https://x/3", "https://x/4",
                 "https://x/5">>
WindowDays == {9, 30, 40}

\* String comparison (SQLite BINARY collation, Python str order) on titles:
\* the lexemes in code-point order; no word is a prefix of another.
TokenOrder == <<" ", "(", ")", ",", "-", "Acme", "Beta", "OR", "Portland",
                "Seattle", "States", "Test", "United", "WA", "Washington", "Writer",
                "in">>
TokenRank(tok) == CHOOSE i \in 1..Len(TokenOrder) : TokenOrder[i] = tok
RECURSIVE TitleLess(_, _)
TitleLess(a, b) ==
    IF b = <<>> THEN FALSE
    ELSE IF a = <<>> THEN TRUE
    ELSE IF a[1] = b[1] THEN TitleLess(Tail(a), Tail(b))
    ELSE TokenRank(a[1]) < TokenRank(b[1])

\* list.sort(key=...), given the key of every element: ascending by key,
\* equal keys keep their order.
StableSort(s, keys) ==
    [i \in 1..Len(s) |->
        s[CHOOSE p \in 1..Len(s) :
            Cardinality({q \in 1..Len(s) :
                \/ keys[q] < keys[p]
                \/ (keys[q] = keys[p] /\ q < p)}) = i - 1]]

\* SELECT ... FROM jobs ORDER BY title: rows by title, equal titles by rowid.
RowBefore(a, b) ==
    TitleLess(a.title, b.title) \/ (a.title = b.title /\ a.id < b.id)
DedupRows(js) ==
    [i \in 1..Cardinality(js) |->
        CHOOSE r \in js : Cardinality({x \in js : RowBefore(x, r)}) = i - 1]

\* LENGTH(description) AS desc_len, and r["desc_len"] or 0
DescLen(row) == IF row.description = NULL THEN 0 ELSE Len(row.description)

\* parse_date: a missing or unparseable date is datetime.min, day 1.
ParseDate(d) == IF d = NONE THEN 1 ELSE d
DateKey(row) == ParseDate(row.posted_date)

\* groups[norm]: the rows whose normalized title is norm, in row order.
GroupOf(rows, norm) == SelectSeq(rows, LAMBDA r : normalize_title(r.title) = norm)

\* sorted(groups.items()): the normalized titles in string order.
GroupKeys(js) ==
    LET K == {normalize_title(j.title) : j \in js}
    IN  [i \in 1..Cardinality(K) |->
            CHOOSE k \in K : Cardinality({x \in K : TitleLess(x, k)}) = i - 1]

\* (job_date - parse_date(clusters[-1][0]["posted_date"])).days <= window_days
JoinsCluster_strict(job, cluster, window_days) ==
    DateKey(job) - DateKey(cluster[1]) < window_days
JoinsCluster(job, cluster, window_days) ==
    DateKey(job) - DateKey(cluster[1]) <= window_days

\* The clustering loop over one date-sorted group.
RECURSIVE ClusterByWindow(_, _, _)
ClusterByWindow(js, clusters, window_days) ==
    IF js = <<>> THEN clusters
    ELSE LET job == Head(js)
             n == Len(clusters)
         IN  IF n > 0 /\ JoinsCluster(job, clusters[n], window_days)
             THEN ClusterByWindow(Tail(js),
                                  [clusters EXCEPT ![n] = Append(@, job)],
                                  window_days)
             ELSE ClusterByWindow(Tail(js), Append(clusters, <<job>>), window_days)

\* The clusters of every group of two or more rows, group after group.
RECURSIVE ClustersFrom(_, _, _)
ClustersFrom(keys, rows, window_days) ==
    IF keys = <<>> THEN <<>>
    ELSE LET g == GroupOf(rows, Head(keys))
         IN  (IF Len(g) < 2 THEN <<>>
              ELSE ClusterByWindow(StableSort(g, [i \in 1..Len(g) |-> DateKey(g[i])]),
                                   <<>>, window_days))
             \o ClustersFrom(Tail(keys), rows, window_days)

\* cluster.sort(key=desc_len, reverse=True): richest description first,
\* equal lengths in their date-sorted order.
RichestFirst_poorest(cluster) ==
    StableSort(cluster, [i \in 1..Len(cluster) |-> DescLen(cluster[i])])
RichestFirst(cluster) ==
    StableSort(cluster, [i \in 1..Len(cluster) |-> 0 - DescLen(cluster[i])])

\* dupes = cluster[1:] of every cluster of two or more, in loop order.
RECURSIVE DupesOf(_)
DupesOf(clusters) ==
    IF clusters = <<>> THEN <<>>
    ELSE (IF Len(Head(clusters)) < 2 THEN <<>>
          ELSE Tail(RichestFirst(Head(clusters))))
         \o DupesOf(Tail(clusters))

RECURSIVE DeleteAll(_, _)
DeleteAll(js, dupes) ==
    IF dupes = <<>> THEN js
    ELSE DeleteAll(DeleteJob(js, Head(dupes).id), Tail(dupes))

IdsOf(cluster) == [i \in 1..Len(cluster) |-> cluster[i].id]

\* deduplicate_jobs: the table after the run, the returned stats, and the
\* clusters it formed (as job ids, in date-sorted order).
DeduplicateJobs(js, dry_run, window_days) ==
    LET rows == DedupRows(js)
        keys == GroupKeys(js)
        clusters == ClustersFrom(keys, rows, window_days)
        dupes == DupesOf(clusters)
    IN  [jobs |-> IF dry_run THEN js ELSE DeleteAll(js, dupes),
         stats |-> [groups |-> Cardinality({i \in 1..Len(keys) :
                                              Len(GroupOf(rows, keys[i])) >= 2}),
                    duplicates |-> Len(dupes),
                    deleted |-> IF dry_run THEN 0 ELSE Len(dupes)],
         clusters |-> [i \in 1..Len(clusters) |-> IdsOf(clusters[i])]]

(***************************************************************************)
(* job_analyzer.py: analyze_job and process_jobs.  The classifier is a     *)
(* function from job id to what the chat completion call does for that     *)
(* job: "object" (the content parses to a JSON object, body holds its      *)
(* keys), "array" (the content parses to JSON that is not an object) or    *)
(* "error" (the call raises, or the content is not JSON).                  *)
(***************************************************************************)
Responses ==
    { [kind |-> "object",
       body |-> [location_label |-> "Seattle", job_type |-> "Contract",
                 pay_range |-> "$50/hr", contract_duration |-> "6 months",
                 title_cleaned |-> TitleA]],
      [kind |-> "object",
       body |-> [location_label |-> "DELETE", pay_range |-> "$50/hr"]],
      [kind |-> "object", body |-> [location_label |-> "Hybrid"]],
      [kind |-> "array", body |-> <<>>],
      [kind |-> "error", body |-> <<>>] }

\* analyze_job: the parsed content, or the default dict of the except branch.
analyze_job(job, response) ==
    IF response.kind = "error"
    THEN [kind |-> "object",
          body |-> [location_label |-> "Review for location",
                    location_reasoning |-> "Analysis failed",
                    job_type |-> "Not specified",
                    pay_range |-> "NOT_SPECIFIED",
                    contract_duration |-> "NOT_SPECIFIED",
                    title_cleaned |-> job.title]]
    ELSE response

\* analysis.get(key, default)
Get(body, key, default) == IF key \in DOMAIN body THEN body[key] ELSE default

\* list_jobs(status='new'): ORDER BY j.created_at DESC, equal stamps by rowid.
ListedBefore(a, b) ==
    a.created_at > b.created_at \/ (a.created_at = b.created_at /\ a.id < b.id)
ListNewJobs(js) ==
    LET new == {j \in js : j.status = "new"}
    IN  [i \in 1..Cardinality(new) |->
            CHOOSE r \in new : Cardinality({x \in new : ListedBefore(x, r)}) = i - 1]

NoStats == [seattle |-> 0, remote |-> 0, review |-> 0, deleted |-> 0,
            pay_found |-> 0, title_cleaned |-> 0]

\* The DELETE branch: delete_job(job.id) unless dry_run.
DeleteDecision_always(js, job, dry_run) == DeleteJob(js, job.id)
DeleteDecision(js, job, dry_run) ==
    IF dry_run THEN js ELSE DeleteJob(js, job.id)

\* The UPDATE statements of a live run for one kept job, each followed by
\* the updated_at trigger.
ApplyUpdates(js, job, label, job_type, pay_range, contract_duration, title_cleaned, t) ==
    IF job.id \notin JobIds(js) THEN js
    ELSE LET row == JobById(js, job.id)
             new == [row EXCEPT
                       !.location_label = label,
                       !.job_type = IF job_type # "Not specified"
                                    THEN job_type ELSE @,
                       !.pay_range = IF pay_range # "NOT_SPECIFIED"
                                     THEN pay_range ELSE @,
                       !.contract_duration = IF contract_duration # "NOT_SPECIFIED"
                                             THEN contract_duration ELSE @,
                       !.title = IF title_cleaned # job.title
                                 THEN title_cleaned ELSE @]
         IN  (js \ {row}) \cup {Touch(new, t)}

\* One iteration of the loop of process_jobs.  raised: the iteration ended
\* in an exception that process_jobs does not catch (analysis.get on a value
\* that is not a dict; the CHECK on location_label failing the UPDATE).
ProcessOne(js, stats, job, analysis, dry_run, t) ==
    IF analysis.kind # "object"
    THEN [jobs |-> js, stats |-> stats, raised |-> TRUE]
    ELSE
    LET body == analysis.body
        location_label == Get(body, "location_label", "Review for location")
        job_type == Get(body, "job_type", "Not specified")
        pay_range == Get(body, "pay_range", "NOT_SPECIFIED")
        contract_duration == Get(body, "contract_duration", "NOT_SPECIFIED")
        title_cleaned == Get(body, "title_cleaned", job.title)
        s1 == [stats EXCEPT
                 !.title_cleaned = IF title_cleaned # job.title THEN @ + 1 ELSE @,
                 !.pay_found = IF pay_range # "NOT_SPECIFIED" THEN @ + 1 ELSE @]
        s2 == [s1 EXCEPT
                 !.seattle = IF location_label = "Seattle" THEN @ + 1 ELSE @,
                 !.remote = IF location_label = "Remote" THEN @ + 1 ELSE @,
                 !.review = IF location_label \notin {"Seattle", "Remote"}
                            THEN @ + 1 ELSE @]
    IN  IF location_label = "DELETE"
        THEN [jobs |-> DeleteDecision(js, job, dry_run),
              stats |-> [s1 EXCEPT !.deleted = @ + 1], raised |-> FALSE]
        ELSE IF dry_run
        THEN [jobs |-> js, stats |-> s2, raised |-> FALSE]
        ELSE IF ~CheckLabel(location_label)
        THEN [jobs |-> js, stats |-> s2, raised |-> TRUE]
        ELSE [jobs |-> ApplyUpdates(js, job, location_label, job_type, pay_range,
                                    contract_duration, title_cleaned, t),
              stats |-> s2, raised |-> FALSE]

\* for job in jobs: ...  The loop ends at the first uncaught exception.
RECURSIVE ProcessLoop(_, _, _, _, _, _, _)
ProcessLoop(batch, js, stats, processed, dry_run, classifier, t) ==
    IF batch = <<>>
    THEN [jobs |-> js, stats |-> stats, raised |-> FALSE, processed |-> processed]
    ELSE LET job == Head(batch)
             r == ProcessOne(js, stats, job, analyze_job(job, classifier[job.id]),
                             dry_run, t)
         IN  IF r.raised
             THEN [jobs |-> r.jobs, stats |-> r.stats, raised |-> TRUE,
                   processed |-> processed]
             ELSE ProcessLoop(Tail(batch), r.jobs, r.stats,
                              Append(processed, job.id), dry_run, classifier, t)

\* process_jobs(job_ids=None, dry_run): the table after the run, whether it
\* raised, the stats it returns when it does not, the ids of the batch and
\* of the jobs whose iteration ran to its end.
ProcessJobs(js, dry_run, classifier, t) ==
    LET batch == ListNewJobs(js)
        r == ProcessLoop(batch, js, NoStats, <<>>, dry_run, classifier, t)
    IN  [jobs |-> r.jobs, raised |-> r.raised,
         stats |-> IF r.raised THEN NoStats ELSE r.stats,
         batch |-> IdsOf(batch), processed |-> r.processed]

\* The invocations of the analyzer on one dataset: one run, a dry run
\* followed by the same run for real, or a deduplication for real followed
\* by the same deduplication again.
CanRun(op, args) ==
    \/ last.op = "init"
    \/ /\ last.op = op
       /\ ~args.dry_run
       /\ last.args = [args EXCEPT !.dry_run = TRUE]
    \/ /\ last.op = op
       /\ op = "deduplicate_jobs"
       /\ ~args.dry_run
       /\ last.args = args

process_jobs(dry_run, classifier) ==
    /\ CanRun("process_jobs", [dry_run |-> dry_run, classifier |-> classifier])
    /\ LET r == ProcessJobs(jobs, dry_run, classifier, now)
       IN  /\ jobs' = r.jobs
           /\ last' = [op |-> "process_jobs", id |-> NONE, url |-> NULL,
                       existed |-> FALSE,
                       args |-> [dry_run |-> dry_run, classifier |-> classifier],
                       ret |-> [raised |-> r.raised, stats |-> r.stats,
                                batch |-> r.batch, processed |-> r.processed]]
    /\ UNCHANGED <<sources, feeds, seq, now, remote, run, nt, pipe, loc>>

deduplicate_jobs(dry_run, window_days) ==
    /\ CanRun("deduplicate_jobs", [dry_run |-> dry_run, window_days |-> window_days])
    /\ LET r == DeduplicateJobs(jobs, dry_run, window_days)
       IN  /\ jobs' = r.jobs
           /\ last' = [op |-> "deduplicate_jobs", id |-> NONE, url |-> NULL,
                       existed |-> FALSE,
                       args |-> [dry_run |-> dry_run, window_days |-> window_days],
                       ret |-> [stats |-> r.stats, clusters |-> r.clusters]]
    /\ UNCHANGED <<sources, feeds, seq, now, remote, run, nt, pipe, loc>>

\* The analyzer has not run on the dataset yet.
NoRun == [NoOp EXCEPT !.args = [dry_run |-> FALSE], !.ret = [raised |-> FALSE]]

\* A dataset of n postings, as n calls of upsert_job at time 0 (and
\* update_status for a reviewed posting) leave it.
Dataset(ps) ==
    {[NewJobRow(i, ps[i].title, PostingUrls[i], ps[i].description,
                ps[i].posted_date, NONE, NONE, 0)
        EXCEPT !.status = ps[i].status] : i \in 1..Len(ps)}

InitAnalyze ==
    /\ \E n \in 0..MaxJobs : \E ps \in [1..n -> Postings] :
          /\ jobs = Dataset(ps)
          /\ seq = [jobs |-> n, sources |-> 0, feeds |-> 0]
    /\ sources = {} /\ feeds = {}
    /\ now = 1 /\ last = NoRun /\ remote = NoFeeds /\ run = IdleRun
    /\ nt = NoTitle /\ pipe = NoPipe /\ loc = NoLoc

\* What the classifier may answer for the jobs of the batch.
Classifiers == [{j.id : j \in {x \in jobs : x.status = "new"}} -> Responses]

NextAnalyze ==
    \/ \E dry_run \in BOOLEAN, classifier \in Classifiers :
          process_jobs(dry_run, classifier)
    \/ \E dry_run \in BOOLEAN, window_days \in WindowDays :
          deduplicate_jobs(dry_run, window_days)

SpecAnalyze == InitAnalyze /\ [][NextAnalyze]_vars

(***************************************************************************)
(* list_jobs                                                               *)
(***************************************************************************)
ALLOWED_ORDER ==
    {"created_at", "posted_date", "score", "status", "title", "id",
     "created_at DESC", "created_at ASC", "posted_date DESC", "posted_date ASC",
     "score DESC", "score ASC", "status ASC", "status DESC",
     "title ASC", "title DESC", "id ASC", "id DESC"}

\* if order_by not in _ALLOWED_ORDER: order_by = "created_at DESC"
OrderClause_verbatim(order_by) == order_by
OrderClause(order_by) ==
    IF order_by \in ALLOWED_ORDER THEN order_by ELSE "created_at DESC"

\* ORDER BY j.<column> [ASC | DESC], read off an allowed clause.
OrderColumn(clause) ==
    CASE clause \in {"created_at", "created_at ASC", "created_at DESC"} -> "created_at"
      [] clause \in {"posted_date", "posted_date ASC", "posted_date DESC"} -> "posted_date"
      [] clause \in {"score", "score ASC", "score DESC"} -> "score"
      [] clause \in {"status", "status ASC", "status DESC"} -> "status"
      [] clause \in {"title", "title ASC", "title DESC"} -> "title"
      [] clause \in {"id", "id ASC", "id DESC"} -> "id"
OrderDesc(clause) ==
    clause \in {"created_at DESC", "posted_date DESC", "score DESC",
                "status DESC", "title DESC", "id DESC"}

\* The sort key of a row under a column: NULL sorts before every value,
\* text in byte order.
StatusOrder == <<"applied", "new", "offer", "rejected", "reviewed">>
ColumnKey(j, col) ==
    CASE col = "created_at" -> j.created_at
      [] col = "posted_date" -> j.posted_date
      [] col = "score" -> j.score
      [] col = "status" -> CHOOSE i \in 1..Len(StatusOrder) : StatusOrder[i] = j.status
      [] col = "title" -> Cardinality({t \in {TitleA, TitleB} : TitleLess(t, j.title)})
      [] col = "id" -> j.id

\* Rows with equal ORDER BY keys come out in the order in which SQLite
\* visits them, which follows the index it picks for the WHERE clause or
\* for the ordering: (status, score DESC), (score), (posted_date),
\* (source_id), or the table in rowid order.
TieKeys(status, source, min_score, col, desc) ==
    CASE col = "id" -> <<>>
      [] col = "score" /\ status # NULL -> <<<<"id", ~desc>>>>
      [] col # "id" /\ col # "score" /\ status # NULL
            /\ (source = NULL \/ min_score # NONE) ->
            <<<<"score", TRUE>>, <<"id", FALSE>>>>
      [] col \in {"posted_date", "score"} /\ source = NULL /\ status = NULL ->
            <<<<"id", desc>>>>
      [] col = "status" /\ source = NULL /\ status = NULL ->
            <<<<"score", ~desc>>, <<"id", desc>>>>
      [] col \in {"created_at", "title"} /\ source = NULL /\ status = NULL
            /\ min_score # NONE -> <<<<"score", FALSE>>, <<"id", FALSE>>>>
      [] OTHER -> <<<<"id", FALSE>>>>

RECURSIVE RowBeforeByKeys(_, _, _)
RowBeforeByKeys(a, b, keys) ==
    IF keys = <<>> THEN FALSE
    ELSE LET ka == ColumnKey(a, keys[1][1])
             kb == ColumnKey(b, keys[1][1])
         IN  IF ka = kb THEN RowBeforeByKeys(a, b, Tail(keys))
             ELSE IF keys[1][2] THEN ka > kb ELSE ka < kb

\* SELECT j.*, s.name, f.name FROM jobs j LEFT JOIN ... WHERE ... ORDER BY
\* j.<clause> [LIMIT ?]: the ids of the rows in the order returned. A clause
\* that names no column of jobs makes the statement raise.
ListJobs(db, status, source, min_score, order_by, limit) ==
    LET clause == OrderClause(order_by)
        keys == <<<<OrderColumn(clause), OrderDesc(clause)>>>>
                \o TieKeys(status, source, min_score,
                           OrderColumn(clause), OrderDesc(clause))
        sel == {j \in db.jobs :
                  /\ status # NULL => j.status = status
                  /\ source # NULL => SourceName(db.sources, j.source_id) = source
                  /\ min_score # NONE => (j.score # NONE /\ j.score >= min_score)}
        all == [i \in 1..Cardinality(sel) |->
                  (CHOOSE r \in sel :
                      Cardinality({x \in sel : RowBeforeByKeys(x, r, keys)}) = i - 1).id]
    IN  IF clause \notin ALLOWED_ORDER
        THEN [rows |-> <<>>, order |-> clause, raised |-> TRUE]
        ELSE [rows |-> IF limit # NONE /\ limit >= 0 /\ limit < Len(all)
                       THEN SubSeq(all, 1, limit) ELSE all,
              order |-> clause,
              raised |-> FALSE]

list_jobs(status, source, min_score, order_by, limit) ==
    /\ last' = [op |-> "list_jobs", id |-> NONE, url |-> NULL, existed |-> FALSE,
                args |-> [status |-> status, source |-> source,
                          min_score |-> min_score, order_by |-> order_by,
                          limit |-> limit],
                ret |-> ListJobs(DB, status, source, min_score, order_by, limit)]
    /\ UNCHANGED <<jobs, sources, feeds, seq, now, remote, run, nt, pipe, loc>>

(***************************************************************************)
(* SpecQuery: list_jobs over the stores that two upserts, at one or two    *)
(* clock readings, and the triage writes leave behind.                     *)
(***************************************************************************)
OrderInputs ==
    {"created_at DESC", "posted_date DESC", "score ASC", "status",
     "title ASC", "id DESC", "bogus", "id; DROP TABLE jobs"}
QueryStatuses == {"new", "reviewed"}
QueryScores == {NONE, 10}
NoQuery ==
    [NoOp EXCEPT !.args = [order_by |-> "created_at DESC"],
                 !.ret = [raised |-> FALSE]]

\* The triage writes update_status and update_score applied to job id.
Triaged(js, id, status, score, t) ==
    LET j == JobById(js, id)
    IN  IF status = j.status /\ score = j.score THEN js
        ELSE (js \ {j}) \cup {Touch([j EXCEPT !.status = status, !.score = score], t)}

InitQuery ==
    /\ \E p1 \in Payloads, p2 \in Payloads, t \in 0..1 :
       \E s1 \in {"new"}, s2 \in QueryStatuses :
       \E c1 \in QueryScores, c2 \in QueryScores :
          LET d0 == [jobs |-> {}, sources |-> {}, feeds |-> {},
                     seq |-> [jobs |-> 0, sources |-> 0, feeds |-> 0]]
              d1 == UpsertJob(d0, p1.title, "https://x/1", p1.description,
                              p1.posted_date, p1.source, p1.feed, p1.feed_url, 0)
              d2 == UpsertJob(d1, p2.title, "https://x/2", p2.description,
                              p2.posted_date, p2.source, p2.feed, p2.feed_url, t)
          IN  /\ jobs = Triaged(Triaged(d2.jobs, 1, s1, c1, 1), 2, s2, c2, 1)
              /\ sources = d2.sources
              /\ feeds = d2.feeds
              /\ seq = d2.seq
    /\ now = 1 /\ last = NoQuery /\ remote = NoFeeds /\ run = IdleRun
    /\ nt = NoTitle /\ pipe = NoPipe /\ loc = NoLoc

NextQuery ==
    \E status \in {NULL, "new"}, source \in {NULL, "LinkedIn"},
       min_score \in {NONE, 5}, order_by \in OrderInputs, limit \in {NONE, 1} :
          list_jobs(status, source, min_score, order_by, limit)

SpecQuery == InitQuery /\ [][NextQuery]_vars

(***************************************************************************)
(* run_pipeline                                                            *)
(***************************************************************************)
\* What the classifier answers during a pipeline invocation.
PipeResponses ==
    {r \in Responses :
        \/ r.kind = "array"
        \/ r.kind = "object" /\ r.body.location_label \in {"Seattle", "DELETE"}}

\* The posting search_daily finds.
WebJob == [title |-> TitleA, url |-> "https://x/3", description |-> "docs",
           posted_date |-> NONE, source |-> "Web Search", feed |-> "Web Search"]

\* run_pipeline starts on an initialised database.  A crashed invocation is
\* run again with the same arguments.
run_pipeline(rss_only, search_only, skip_analyzer) ==
    /\ pipe.pc \in {"idle", "crashed"}
    /\ ~(rss_only /\ search_only)
    /\ pipe.pc = "crashed" =>
          /\ rss_only = pipe.rss_only
          /\ search_only = pipe.search_only
          /\ skip_analyzer = pipe.skip_analyzer
    /\ pipe' = [pipe EXCEPT !.pc = IF search_only THEN "search" ELSE "rss",
                            !.rss_only = rss_only,
                            !.search_only = search_only,
                            !.skip_analyzer = skip_analyzer,
                            !.start = IF pipe.pc = "crashed" THEN @ ELSE <<DB>>,
                            !.trace = <<>>,
                            !.init_db = TRUE,
                            !.totals = <<0, 0>>,
                            !.calls = <<>>,
                            !.ret = <<>>]
    /\ run' = IdleRun
    /\ UNCHANGED <<jobs, sources, feeds, seq, now, last, remote, nt, loc>>

\* main with both --rss-only and --search-only: it prints the error and
\* exits with code 1 before it calls init_db.
main_after_init_db(rss_only, search_only, skip_analyzer) ==
    IF rss_only /\ search_only
    THEN /\ pipe.pc = "idle"
         /\ pipe' = [pipe EXCEPT !.pc = "exited", !.exit = 1,
                                 !.rss_only = TRUE, !.search_only = TRUE,
                                 !.skip_analyzer = skip_analyzer,
                                 !.init_db = TRUE]
         /\ UNCHANGED <<jobs, sources, feeds, seq, now, last, remote, run, nt, loc>>
    ELSE run_pipeline(rss_only, search_only, skip_analyzer)

\* main: the arguments are validated, and then the database is initialised
\* and run_pipeline is called.
main(rss_only, search_only, skip_analyzer) ==
    IF rss_only /\ search_only
    THEN /\ pipe.pc = "idle"
         /\ pipe' = [pipe EXCEPT !.pc = "exited", !.exit = 1,
                                 !.rss_only = TRUE, !.search_only = TRUE,
                                 !.skip_analyzer = skip_analyzer]
         /\ UNCHANGED <<jobs, sources, feeds, seq, now, last, remote, run, nt, loc>>
    ELSE run_pipeline(rss_only, search_only, skip_analyzer)

\* run_rss_fetch inside the invocation.  An invocation fetches at most
\* twice, so the ids it can take are bounded without a guard.
RssFetch ==
    /\ pipe.pc = "rss"
    /\ run.pc = "idle"
    /\ LET since == GetAllLastFetches(feeds)
       IN  \E df \in FetchAndParseJobs(remote, since, now) :
             /\ run' = [pc |-> IF df = <<>> THEN "done" ELSE "upsert",
                        since |-> since, seen |-> remote, df |-> df, i |-> 1, k |-> 1,
                        upserted |-> 0, stored |-> {}, failed |-> {}]
             /\ last' = [NoOp EXCEPT !.op = "run_rss_fetch", !.ret = <<Len(df), 0>>]
    /\ UNCHANGED <<jobs, sources, feeds, seq, now, remote, nt, pipe, loc>>
RssUpsert(ok) == pipe.pc = "rss" /\ UpsertRow(ok)
RssCursor == pipe.pc = "rss" /\ SetCursor

\* feedparser.parse(url), or the handling of one of its entries, raises:
\* nothing catches the exception in fetch_and_parse_jobs, run_rss_fetch or
\* run_pipeline, and the invocation ends.
FeedRaises(url) ==
    /\ pipe.pc = "rss"
    /\ run.pc = "idle"
    /\ pipe' = [pipe EXCEPT !.pc = "aborted", !.failed = url,
                            !.trace = Append(@, "fetch")]
    /\ UNCHANGED <<jobs, sources, feeds, seq, now, last, remote, run, nt, loc>>

\* What the RSS stage did, in the order it did it.
RssTrace(r) ==
    <<"fetch">>
    \o (IF Len(r.df) > 0 THEN <<"upsert">> ELSE <<>>)
    \o (IF \E u \in FeedUrlSet : RecordsCursor(r, u) THEN <<"cursor">> ELSE <<>>)

\* run_rss_fetch returns to run_pipeline.
RssReturns ==
    /\ pipe.pc = "rss"
    /\ run.pc = "done"
    /\ pipe' = [pipe EXCEPT !.pc = IF pipe.rss_only THEN "analyze" ELSE "search",
                            !.trace = @ \o RssTrace(run),
                            !.totals = <<@[1] + Len(run.df), @[2] + run.upserted>>]
    /\ UNCHANGED <<jobs, sources, feeds, seq, now, last, remote, run, nt, loc>>

\* run_web_search: search_daily fails (caught), finds nothing, or finds
\* WebJob, whose upsert commits or raises (caught).
run_web_search(outcome, ok) ==
    /\ pipe.pc = "search"
    /\ LET r == UpsertJob(DB, WebJob.title, WebJob.url, WebJob.description,
                          WebJob.posted_date, WebJob.source, WebJob.feed, NULL, now)
       IN  IF outcome = "found" /\ ok
           THEN /\ jobs' = r.jobs /\ sources' = r.sources
                /\ feeds' = r.feeds /\ seq' = r.seq
           ELSE UNCHANGED <<jobs, sources, feeds, seq>>
    /\ pipe' = [pipe EXCEPT !.pc = "analyze",
                            !.search = outcome,
                            !.trace = IF outcome = "found"
                                      THEN @ \o <<"search", "upsert">>
                                      ELSE Append(@, "search"),
                            !.totals = IF outcome = "found"
                                       THEN <<@[1] + 1, @[2] + IF ok THEN 1 ELSE 0>>
                                       ELSE @]
    /\ UNCHANGED <<now, last, remote, run, nt, loc>>

\* The analyzer stage: process_jobs(dry_run=False) unless skip_analyzer; an
\* exception it raises is caught and reported.  run_pipeline then returns.
Analyze(classifier) ==
    /\ pipe.pc = "analyze"
    /\ IF pipe.skip_analyzer
       THEN /\ UNCHANGED jobs
            /\ pipe' = [pipe EXCEPT !.pc = "done", !.ret = pipe.totals]
       ELSE LET r == ProcessJobs(jobs, FALSE, classifier, now)
            IN  /\ jobs' = r.jobs
                /\ pipe' = [pipe EXCEPT
                               !.pc = "done",
                               !.trace = Append(@, "classify"),
                               !.calls = Append(@, [dry_run |-> FALSE,
                                                    raised |-> r.raised]),
                               !.ret = pipe.totals]
    /\ UNCHANGED <<sources, feeds, seq, now, last, remote, run, nt, loc>>

\* Whether the RSS pass still has a cursor to write.
CursorWritePending ==
    \/ run.pc = "upsert"
    \/ /\ run.pc = "cursor"
       /\ \E k \in run.k..Len(FEED_URL) : RecordsCursor(run, FEED_URL[k])

\* The process dies between the first upsert of the RSS pass and its last
\* cursor write; what was committed stays.
Crash ==
    /\ pipe.pc = "rss"
    /\ ~pipe.crashed
    /\ run.pc \in {"upsert", "cursor"}
    /\ run.i > 1
    /\ CursorWritePending
    /\ pipe' = [pipe EXCEPT !.pc = "crashed", !.crashed = TRUE,
                            !.lost = run.failed]
    /\ run' = IdleRun
    /\ UNCHANGED <<jobs, sources, feeds, seq, now, last, remote, nt, loc>>

\* Time passes between the crash and the next invocation.
Wait == pipe.pc = "crashed" /\ Tick

(***************************************************************************)
(* SpecPipeline: one invocation of the pipeline, and its repetition after  *)
(* a crash, against feeds whose contents stay the same.                    *)
(***************************************************************************)
\* What the two feeds serve: the first posting, dated or undated, and the
\* second posting, each in either feed or both.
FeedContents ==
    LET first == {e \in Entries : e.link = "https://x/1" /\ e.pub \in {NONE, 1}}
        second == {e \in Entries : e.link = "https://x/2" /\ e.pub = 2}
        served == {{}} \cup {{e} : e \in first} \cup {{e} : e \in second}
                  \cup {{e, f} : e \in first, f \in second}
    IN  [FeedUrlSet -> served]

InitPipeline ==
    /\ jobs = {} /\ sources = {} /\ feeds = {}
    /\ seq = [jobs |-> 0, sources |-> 0, feeds |-> 0]
    /\ now = 0 /\ last = NoOp /\ run = IdleRun
    /\ remote \in FeedContents
    /\ nt = NoTitle /\ pipe = NoPipe /\ loc = NoLoc

PipeClassifiers == [{j.id : j \in {x \in jobs : x.status = "new"}} -> PipeResponses]

NextPipeline ==
    \/ \E rss_only \in BOOLEAN, search_only \in BOOLEAN, skip_analyzer \in BOOLEAN :
          main(rss_only, search_only, skip_analyzer)
    \/ RssFetch
    \/ \E ok \in BOOLEAN : RssUpsert(ok)
    \/ RssCursor
    \/ \E u \in FeedUrlSet : FeedRaises(u)
    \/ RssReturns
    \/ \E outcome \in {"failed", "none", "found"}, ok \in BOOLEAN :
          run_web_search(outcome, ok)
    \/ \E classifier \in PipeClassifiers : Analyze(classifier)
    \/ Crash
    \/ Wait

SpecPipeline == InitPipeline /\ [][NextPipeline]_vars

(***************************************************************************)
(* Claims about the analyzer: dry runs, deduplication, classification.     *)
(***************************************************************************)
AnalyzerOps == {"process_jobs", "deduplicate_jobs"}

\* The step is a dry run of the analyzer.
DryRunStep == last'.op \in AnalyzerOps /\ last'.args.dry_run

\* The step is a live run that follows a dry run of the same invocation.
LiveAfterDryStep ==
    /\ last.op \in AnalyzerOps
    /\ last.args.dry_run
    /\ last'.op = last.op
    /\ ~last'.args.dry_run

\* C5: a run of deduplicate_jobs or process_jobs with dry_run=true performs
\* zero mutations: the set of job rows and every field of every row is the
\* same after the run as before it, also when the classifier answers DELETE
\* or a cleaned title.
C5_DryRunNoMutation ==
    [][DryRunStep => (jobs' = jobs /\ sources' = sources /\ feeds' = feeds
                      /\ seq' = seq)]_vars

\* A dry run of process_jobs over a batch in which the classifier answered
\* DELETE for one job and a cleaned title for another has ended.
C5_Witness ==
    /\ last.op = "process_jobs"
    /\ last.args.dry_run
    /\ ~last.ret.raised
    /\ last.ret.stats.deleted >= 1
    /\ last.ret.stats.title_cleaned >= 1

\* C6: on an identical starting dataset and with the same classifier, the
\* dry run and the live run of deduplicate_jobs return the same groups,
\* duplicates and deleted, and the two runs of process_jobs return the same
\* statistics.
C6_DryEqualsLive ==
    [][LiveAfterDryStep =>
         /\ last'.ret.stats = last.ret.stats
         /\ (last.op = "process_jobs" => last'.ret.raised = last.ret.raised)]_vars

\* The two runs of deduplicate_jobs agree on groups and duplicates.
C6_DedupDecisionsAgree ==
    [][(LiveAfterDryStep /\ last.op = "deduplicate_jobs") =>
         /\ last'.ret.stats.groups = last.ret.stats.groups
         /\ last'.ret.stats.duplicates = last.ret.stats.duplicates
         /\ last.ret.stats.deleted = 0
         /\ last'.ret.stats.deleted = last'.ret.stats.duplicates]_vars

\* The two runs of process_jobs agree whenever the live run returns.
C6_ProcessAgreesUnlessRaised ==
    [][(LiveAfterDryStep /\ last.op = "process_jobs" /\ ~last'.ret.raised) =>
         (~last.ret.raised /\ last'.ret.stats = last.ret.stats)]_vars

\* A dry run that reported duplicates was followed by the live run.
C6_Witness ==
    /\ last.op = "deduplicate_jobs"
    /\ ~last.args.dry_run
    /\ last.ret.stats.duplicates >= 1

\* The sum over the clusters of (cluster size - 1).
RECURSIVE SurplusOf(_)
SurplusOf(clusters) ==
    IF clusters = <<>> THEN 0
    ELSE (Len(Head(clusters)) - 1) + SurplusOf(Tail(clusters))

LiveDedupStep == last'.op = "deduplicate_jobs" /\ ~last'.args.dry_run

\* Cluster c (job ids in date-sorted order) of the table before the step
\* keeps exactly its richest member, the earliest of the richest.
KeepsRichest(c) ==
    \E k \in 1..Len(c) :
        /\ {m \in 1..Len(c) : c[m] \in JobIds(jobs')} = {k}
        /\ \A m \in 1..Len(c) :
              /\ DescLen(JobById(jobs, c[m])) <= DescLen(JobById(jobs, c[k]))
              /\ m < k => DescLen(JobById(jobs, c[m])) < DescLen(JobById(jobs, c[k]))

\* C7: in a live deduplicate run every time-window cluster of size >= 2
\* keeps exactly one survivor, of maximum description length (among equal
\* lengths the earliest in date-sorted order); every other member is
\* deleted, a cluster of size 1 deletes nothing, and the reported number of
\* deletions is the sum over the clusters of (cluster size - 1).
C7_SurvivorIsRichest ==
    [][LiveDedupStep =>
         LET clusters == last'.ret.clusters
         IN  /\ \A i \in 1..Len(clusters) : KeepsRichest(clusters[i])
             /\ jobs' \subseteq jobs
             /\ last'.ret.stats.deleted = SurplusOf(clusters)
             /\ Cardinality(jobs) - Cardinality(jobs') = SurplusOf(clusters)]_vars

\* A live run resolved a cluster of three postings; the earliest of them was
\* not the richest and is gone.
C7_Witness ==
    /\ last.op = "deduplicate_jobs"
    /\ ~last.args.dry_run
    /\ last.ret.stats.deleted = 2
    /\ \E i \in 1..Len(last.ret.clusters) :
          /\ Len(last.ret.clusters[i]) = 3
          /\ last.ret.clusters[i][1] \notin JobIds(jobs)

RECURSIVE Flatten(_)
Flatten(ss) == IF ss = <<>> THEN <<>> ELSE Head(ss) \o Flatten(Tail(ss))

\* The clusters a run formed for the group with normalized title norm.
ClustersOfGroup(clusters, norm) ==
    SelectSeq(clusters, LAMBDA c : normalize_title(JobById(jobs, c[1]).title) = norm)

\* The first posting of the cluster that holds job id.
FirstOfCluster(clusters, id) ==
    LET c == clusters[CHOOSE i \in 1..Len(clusters) :
                        \E k \in 1..Len(clusters[i]) : clusters[i][k] = id]
    IN  c[1]

\* The clusters of one group follow the rule: in ascending date order, a
\* posting joins the current cluster iff its date is at most window_days
\* after the date of the cluster's first posting.
FollowsWindowRule(clusters, norm, window_days) ==
    LET mine == ClustersOfGroup(clusters, norm)
        s == Flatten(mine)
        group == {j \in jobs : normalize_title(j.title) = norm}
    IN  /\ Len(s) = Cardinality(group)
        /\ {s[k] : k \in 1..Len(s)} = JobIds(group)
        /\ \A k \in 2..Len(s) :
              LET first == FirstOfCluster(mine, s[k - 1])
                  gap == DateKey(JobById(jobs, s[k])) - DateKey(JobById(jobs, first))
              IN  /\ DateKey(JobById(jobs, s[k - 1])) <= DateKey(JobById(jobs, s[k]))
                  /\ (FirstOfCluster(mine, s[k]) = first) <=> (gap <= window_days)

\* The group is three postings dated 2026-01-01, 2026-01-10, 2026-02-15.
IsExampleGroup(norm) ==
    LET group == {j \in jobs : normalize_title(j.title) = norm}
    IN  /\ Cardinality(group) = 3
        /\ {j.posted_date : j \in group} = {739617, 739626, 739662}

\* With window_days = 30 the example gives a cluster of the first two
\* postings and a singleton of the third, which is not deleted.
ExampleClusters(clusters, norm) ==
    LET mine == ClustersOfGroup(clusters, norm)
    IN  /\ Len(mine) = 2
        /\ Len(mine[1]) = 2 /\ Len(mine[2]) = 1
        /\ JobById(jobs, mine[1][1]).posted_date = 739617
        /\ JobById(jobs, mine[1][2]).posted_date = 739626
        /\ JobById(jobs, mine[2][1]).posted_date = 739662
        /\ mine[2][1] \in JobIds(jobs')

\* C8: within a group of jobs with the same normalized title, sorted
\* ascending by posted date, a posting joins the current cluster iff its
\* date is at most window_days days after the date of the first posting of
\* that cluster, and otherwise starts a new cluster; dates 2026-01-01,
\* 2026-01-10, 2026-02-15 with window_days = 30 give one cluster of the
\* first two and a singleton for the third, which is not deleted.
C8_WindowAnchoredOnFirst ==
    [][last'.op = "deduplicate_jobs" =>
         LET clusters == last'.ret.clusters
             window_days == last'.args.window_days
             norms == {n \in {normalize_title(j.title) : j \in jobs} :
                         Cardinality({j \in jobs : normalize_title(j.title) = n}) >= 2}
         IN  /\ \A i \in 1..Len(clusters) :
                   normalize_title(JobById(jobs, clusters[i][1]).title) \in norms
             /\ \A n \in norms :
                   /\ FollowsWindowRule(clusters, n, window_days)
                   /\ (window_days = 30 /\ IsExampleGroup(n))
                          => ExampleClusters(clusters, n)]_vars

\* A live run with window_days = 30 has clustered the postings of the
\* example: two in one cluster, the third alone and still in the table.
C8_Witness ==
    /\ last.op = "deduplicate_jobs"
    /\ ~last.args.dry_run
    /\ last.args.window_days = 30
    /\ Len(last.ret.clusters) = 2
    /\ Len(last.ret.clusters[1]) = 2
    /\ Len(last.ret.clusters[2]) = 1
    /\ last.ret.stats.deleted = 1
    /\ \E j \in jobs : j.id = last.ret.clusters[2][1] /\ j.posted_date = 739662
    /\ \E j \in jobs : j.id \in {last.ret.clusters[1][1], last.ret.clusters[1][2]}
                       /\ j.posted_date = 739626

\* A deduplication for real that follows one with the same window.
SecondDedupStep ==
    /\ LiveDedupStep
    /\ last.op = "deduplicate_jobs"
    /\ ~last.args.dry_run
    /\ last'.args = last.args

\* C29: deduplicate_jobs is idempotent as a live operation: for any set of
\* jobs and any window_days, running it a second time immediately after a
\* live run deletes nothing, i.e. after one live run no two surviving jobs
\* with the same normalized title fall into the same time-window cluster.
C29_DedupIdempotent ==
    /\ [][SecondDedupStep =>
            /\ jobs' = jobs
            /\ last'.ret.stats.deleted = 0
            /\ last'.ret.stats.duplicates = 0]_vars
    /\ [][LiveDedupStep =>
            \A i \in 1..Len(DeduplicateJobs(jobs', TRUE, last'.args.window_days).clusters) :
               Len(DeduplicateJobs(jobs', TRUE, last'.args.window_days).clusters[i]) = 1]_vars

\* What holds: a second run deletes nothing when the survivor of every
\* cluster the first run resolved is the posting that opened the cluster.
C29_WhenSurvivorOpensCluster ==
    [][(SecondDedupStep
          /\ \A i \in 1..Len(last.ret.clusters) :
                last.ret.clusters[i][1] \in JobIds(jobs)) =>
            /\ jobs' = jobs
            /\ last'.ret.stats.deleted = 0]_vars

\* A second run for real has deleted a posting the first run kept.
C29_Witness ==
    /\ last.op = "deduplicate_jobs"
    /\ ~last.args.dry_run
    /\ last.ret.stats.deleted = 1
    /\ Cardinality(jobs) = 1
    /\ seq.jobs = 3

\* C10: during a classifier pass a classifier failure or malformed output
\* for one job (network error, unparseable output, output that is not an
\* object, a location_label outside the allowed set) never aborts the
\* batch: every job of the batch is processed.
C10_NeverAborts ==
    last.op = "process_jobs" =>
        (~last.ret.raised /\ last.ret.processed = last.ret.batch)

\* The classifier's answers for the batch are all objects.
AllObjects(classifier) ==
    \A id \in DOMAIN classifier : classifier[id].kind # "array"

\* A pass whose failures are all raised by the call or the parser runs to
\* the end of the batch, in a dry run whatever the labels are and in a live
\* run when the labels pass the CHECK of the column.
C10_CaughtFailures ==
    (/\ last.op = "process_jobs"
     /\ AllObjects(last.args.classifier)
     /\ (last.args.dry_run \/
         \A id \in DOMAIN last.args.classifier :
            last.args.classifier[id].kind = "object" =>
                \/ last.args.classifier[id].body.location_label = "DELETE"
                \/ CheckLabel(last.args.classifier[id].body.location_label)))
    => (~last.ret.raised /\ last.ret.processed = last.ret.batch)

\* A live pass over three jobs ended at the second, whose label the column
\* rejects; the third was never processed.
C10_Witness ==
    /\ last.op = "process_jobs"
    /\ ~last.args.dry_run
    /\ last.ret.raised
    /\ Len(last.ret.batch) = 3
    /\ Len(last.ret.processed) = 1
    /\ last.args.classifier[last.ret.batch[2]].kind = "object"
    /\ last.args.classifier[last.ret.batch[2]].body.location_label = "Hybrid"

(***************************************************************************)
(* Claims about a pipeline invocation.                                     *)
(***************************************************************************)
\* An RSS pass that runs to its end without a crash and without a failing
\* upsert, from store db over the data frame df.
RECURSIVE UpsertAll(_, _, _)
UpsertAll(db, df, i) ==
    IF i > Len(df) THEN db
    ELSE UpsertAll(UpsertJob(db, df[i].title, df[i].url, df[i].description,
                             DateOf(df[i].posted), df[i].source, df[i].feed,
                             df[i].feed_url, now),
                   df, i + 1)

RECURSIVE WriteCursors(_, _, _)
WriteCursors(db, df, k) ==
    IF k > Len(FEED_URL) THEN db
    ELSE LET url == FEED_URL[k]
             r == SetLastFetch(db.feeds, db.seq.feeds, url,
                               SeqMax(FeedRowDates(df, url)))
         IN  WriteCursors(IF FeedRowDates(df, url) = <<>> THEN db
                          ELSE [db EXCEPT !.feeds = r.feeds, !.seq.feeds = r.seq],
                          df, k + 1)

CleanPass(db, df) ==
    LET d == UpsertAll(db, df, 1)
    IN  WriteCursors([jobs |-> d.jobs, sources |-> d.sources, feeds |-> d.feeds,
                      seq |-> d.seq], df, 1)

CleanPasses(db) ==
    {CleanPass(db, df) :
        df \in FetchAndParseJobs(remote, GetAllLastFetches(db.feeds), now)}

\* The jobs of a store without their row ids and stamps, with the names of
\* their source and feed, and the cursor of every configured feed.
JobsOf(db) ==
    {[title |-> j.title, url |-> j.url, description |-> j.description,
      posted_date |-> j.posted_date,
      source |-> SourceName(db.sources, j.source_id),
      feed |-> FeedName(db.feeds, j.feed_id),
      status |-> j.status, score |-> j.score,
      score_rationale |-> j.score_rationale,
      location_label |-> j.location_label, job_type |-> j.job_type,
      pay_range |-> j.pay_range, contract_duration |-> j.contract_duration]
        : j \in db.jobs}
CursorsOf(db) == [u \in FeedUrlSet |-> GetLastFetch(db.feeds, u)]

\* The RSS pass of an invocation that was started again after a crash has
\* run to its end.
RerunFinished == pipe.crashed /\ pipe.pc = "rss" /\ run.pc = "done"

\* C19: if an RSS fetch pass crashes between its first upsert and its last
\* cursor write, the committed rows remain, and running the pass again
\* over the same feed contents ends with the same set of jobs and the same
\* cursors as a single pass that did not crash: no entry newer than the
\* pre-crash cursor is lost.
C19_RerunEqualsCleanPass ==
    RerunFinished =>
       \E d \in CleanPasses(pipe.start[1]) :
          /\ JobsOf(DB) = JobsOf(d)
          /\ CursorsOf(DB) = CursorsOf(d)

\* The same for the passes in which no upsert of the second run failed.
C19_WhenNoUpsertFails ==
    (RerunFinished /\ run.failed = {} /\ pipe.lost = {}) =>
       \E d \in CleanPasses(pipe.start[1]) :
          /\ JobsOf(DB) = JobsOf(d)
          /\ CursorsOf(DB) = CursorsOf(d)

\* The parts that hold after any crash and second run without a failing
\* upsert: every posting a clean pass stores is stored, with its title.
C19_NoPostingLost ==
    (RerunFinished /\ run.failed = {} /\ pipe.lost = {}) =>
       \E d \in CleanPasses(pipe.start[1]) :
          {[title |-> j.title, url |-> j.url] : j \in JobsOf(DB)}
             = {[title |-> j.title, url |-> j.url] : j \in JobsOf(d)}

\* The second run after a crash has finished its RSS pass, a cursor written
\* before the crash is in place and rows are stored.
C19_Witness ==
    /\ RerunFinished
    /\ jobs # {}
    /\ run.df # <<>>
    /\ \E u \in FeedUrlSet : run.since[u] # NONE

\* The invocation has ended, by returning or by an exception.
InvocationEnded == pipe.pc \in {"done", "aborted"}

\* The entries feed u serves that are newer than the cursor the invocation
\* started with.
NewEntries(u) ==
    {e \in remote[u] :
        KeepEntry(GetLastFetch(pipe.start[1].feeds, u), PubDate(e, now))}

\* C17: if fetching one feed or source fails, the remaining feeds and
\* sources are still fetched and processed in the same pipeline run, and
\* the entries already fetched from the other feeds are still upserted and
\* committed.
C17_FailureIsolated ==
    (InvocationEnded /\ pipe.failed # NULL) =>
       /\ pipe.pc = "done"
       /\ run.pc = "done"
       /\ \A u \in FeedUrlSet \ {pipe.failed} :
             \A e \in NewEntries(u) :
                e.link \in run.stored \cup {r.url : r \in run.failed}

\* The part that holds: a web search that fails does not end the
\* invocation; the rows of the RSS pass stay and the analyzer stage is
\* reached.
C17_SearchFailureIsolated ==
    /\ (pipe.search = "failed" /\ pipe.pc = "analyze" /\ ~pipe.search_only) =>
          (run.pc = "done" /\ run.stored \subseteq JobUrls(jobs))
    /\ (pipe.search = "failed" /\ pipe.pc = "done" /\ ~pipe.skip_analyzer) =>
          pipe.trace[Len(pipe.trace)] = "classify"

\* A feed raised while the other feed serves entries: the invocation is
\* over and none of them is stored.
C17_Witness ==
    /\ pipe.pc = "aborted"
    /\ ~pipe.crashed
    /\ \E u \in FeedUrlSet \ {pipe.failed} : NewEntries(u) # {}
    /\ jobs = {}

\* Position of the first and of the last occurrence of a stage in the
\* trace of the invocation; 0 when the stage did not run.
FirstAt(stage) ==
    IF \E i \in 1..Len(pipe.trace) : pipe.trace[i] = stage
    THEN CHOOSE i \in 1..Len(pipe.trace) :
            /\ pipe.trace[i] = stage
            /\ \A k \in 1..(i - 1) : pipe.trace[k] # stage
    ELSE 0
LastAt(stage) ==
    IF \E i \in 1..Len(pipe.trace) : pipe.trace[i] = stage
    THEN CHOOSE i \in 1..Len(pipe.trace) :
            /\ pipe.trace[i] = stage
            /\ \A k \in (i + 1)..Len(pipe.trace) : pipe.trace[k] # stage
    ELSE 0

\* No cursor has moved while the RSS pass is still upserting.
UpsertsBeforeCursors ==
    (pipe.pc = "rss" /\ run.pc = "upsert") =>
       \A u \in FeedUrlSet : GetLastFetch(feeds, u) = run.since[u]

\* The classifier pass comes after every fetch, upsert and cursor write of
\* the invocation that ran it.
ClassifyAfterIngestion ==
    (pipe.pc = "done" /\ ~pipe.skip_analyzer) =>
       /\ FirstAt("classify") = Len(pipe.trace)
       /\ \A s \in {"fetch", "upsert", "cursor", "search"} :
             LastAt(s) < FirstAt("classify")

\* C20: one pipeline invocation runs its stages in the order fetch, upsert,
\* cursor advance, classify, dedup: every upsert of the pass happens before
\* any cursor is advanced, the classifier pass runs after ingestion, and
\* the Deduplicator runs after the classifier pass before the invocation
\* completes.
C20_StageOrder ==
    /\ UpsertsBeforeCursors
    /\ ClassifyAfterIngestion
    /\ (pipe.pc = "done" /\ ~pipe.skip_analyzer) =>
          FirstAt("dedup") > LastAt("classify")

\* The order the code keeps: within the RSS pass upserts come before cursor
\* writes, the web search comes after the RSS pass, the classifier pass
\* comes last, and no deduplication runs.
C20_CodeOrder ==
    /\ UpsertsBeforeCursors
    /\ ClassifyAfterIngestion
    /\ pipe.pc = "done" =>
          /\ FirstAt("dedup") = 0
          /\ LastAt("fetch") <= 1
          /\ FirstAt("cursor") # 0 => FirstAt("cursor") > FirstAt("upsert")
          /\ FirstAt("search") # 0 => FirstAt("search") > LastAt("cursor")

\* A full invocation that fetched, upserted, wrote a cursor, searched and
\* classified has returned.
C20_Witness ==
    /\ pipe.pc = "done"
    /\ pipe.trace = <<"fetch", "upsert", "cursor", "search", "classify">>

\* How many times stage x appears in the trace of the invocation.
StageCount(x) == Cardinality({i \in 1..Len(pipe.trace) : pipe.trace[i] = x})

\* The stages the flags select were run, the classifier pass was called
\* once with dry_run=False unless skipped, and the totals were returned
\* even if the classifier pass raised.
FlagsSelectStages ==
    /\ StageCount("fetch") = (IF pipe.search_only THEN 0 ELSE 1)
    /\ StageCount("search") = (IF pipe.rss_only THEN 0 ELSE 1)
    /\ Len(pipe.calls) = (IF pipe.skip_analyzer THEN 0 ELSE 1)
    /\ \A i \in 1..Len(pipe.calls) : ~pipe.calls[i].dry_run
    /\ pipe.pc = "done" /\ pipe.ret = pipe.totals

\* C21: run_pipeline runs the RSS stage iff search_only is false, the
\* web-search stage iff rss_only is false, and calls the classifier pass
\* exactly once with dry_run=False iff skip_analyzer is false; an exception
\* raised by the classifier pass does not keep run_pipeline from returning
\* its (fetched, upserted) totals.
C21_FlagsSelectStages == InvocationEnded => FlagsSelectStages

\* The same for the invocations in which run_rss_fetch returns.
C21_WhenRssStageReturns == pipe.pc = "done" => FlagsSelectStages

\* The classifier pass raised and run_pipeline returned its totals.
C21_ClassifierRaised ==
    /\ pipe.pc = "done"
    /\ Len(pipe.calls) = 1 /\ pipe.calls[1].raised
    /\ pipe.ret = pipe.totals /\ pipe.ret[2] > 0

\* A feed raised during the RSS stage of an invocation that was to run the
\* web search and the classifier pass, and neither was run.
C21_Witness ==
    /\ pipe.pc = "aborted"
    /\ ~pipe.rss_only /\ ~pipe.skip_analyzer
    /\ StageCount("search") = 0 /\ pipe.calls = <<>>

\* C22: when the pipeline CLI is given both --rss-only and --search-only, it
\* exits with a non-zero code before any work starts: no database is
\* initialised, no feed is fetched and no row is written.
C22_ConflictExitsFirst ==
    (pipe.rss_only /\ pipe.search_only /\ pipe.pc # "idle") =>
        /\ pipe.pc = "exited"
        /\ pipe.exit \notin {0, NONE}
        /\ ~pipe.init_db
        /\ pipe.trace = <<>> /\ run = IdleRun
        /\ jobs = {} /\ sources = {} /\ feeds = {}
        /\ seq = [jobs |-> 0, sources |-> 0, feeds |-> 0]

\* main was given both flags, with feeds that have postings to serve.
C22_Witness ==
    /\ pipe.pc = "exited" /\ pipe.exit = 1
    /\ pipe.rss_only /\ pipe.search_only
    /\ \E u \in FeedUrlSet : remote[u] # {}


(***************************************************************************)
(* Claims about the sources and feeds tables.                              *)
(***************************************************************************)
SetStep == last'.op = "set_last_fetch"

\* The feeds other than the one registered under url u keep their cursor.
OtherCursorsKept(u) ==
    \A f \in feeds : f.url # u =>
       \E g \in feeds' : g.id = f.id /\ g.last_fetch = f.last_fetch

\* What a set_last_fetch(u, ts) that returns leaves behind.
CursorRecorded(u, ts) ==
    /\ GetLastFetch(feeds', u) = ts
    /\ GetAllLastFetches(feeds')[u] = ts
    /\ ~last'.existed =>
          \E g \in feeds' \ feeds : g.name = u /\ g.url = u
    /\ OtherCursorsKept(u)

\* C23: for any store state and any feed URL u, set_last_fetch(u, ts)
\* succeeds and afterwards get_last_fetch(u) == ts and
\* get_all_last_fetches()[u] == ts; when no feed row has URL u, a feed row
\* with name u and URL u is created, and the last_fetch of every other feed
\* is unchanged.
C23_SetThenGet ==
    [][SetStep =>
          /\ last'.ret = NONE
          /\ CursorRecorded(last'.url, last'.args[1])]_vars

\* What holds instead: the call raises exactly when no feed has the url and
\* some feed has the url as its name, and then writes nothing; in every
\* other store it does what C23 says.
C23_UnlessNameTaken ==
    [][SetStep =>
          LET u == last'.url
              taken == /\ \A f \in feeds : f.url # u
                       /\ \E f \in feeds : f.name = u
          IN  IF taken
              THEN last'.ret = 1 /\ feeds' = feeds /\ GetLastFetch(feeds', u) = NONE
              ELSE last'.ret = NONE /\ CursorRecorded(u, last'.args[1])]_vars

\* set_last_fetch has raised on a store where a feed is named after the url
\* and has no url: no cursor is recorded for the url.
C23_Witness ==
    /\ last.op = "set_last_fetch"
    /\ last.ret = 1
    /\ \E f \in feeds : f.name = last.url /\ f.url = NULL
    /\ GetLastFetch(feeds, last.url) = NONE

UniqueSourceNames == \A a, b \in sources : a.name = b.name => a = b
UniqueFeedNames == \A a, b \in feeds : a.name = b.name => a = b
UniqueFeedUrls == \A a, b \in feeds : (a.url # NULL /\ a.url = b.url) => a = b

\* The name and url a call hands to get_or_create_feed: its own arguments,
\* or the feed and feed_url of an upsert.
FeedArgs ==
    IF last'.op = "get_or_create_feed"
    THEN [name |-> last'.args[1], url |-> last'.args[2]]
    ELSE IF last'.op = "upsert_job"
    THEN [name |-> last'.args.feed, url |-> last'.args.feed_url]
    ELSE [name |-> NULL, url |-> NULL]

\* A lookup that finds its row returns that row's id and creates nothing.
ResolvesExisting ==
    /\ (last'.op = "get_or_create_source" /\ last'.existed) =>
          /\ sources' = sources
          /\ \E s \in sources : s.id = last'.ret /\ s.name = last'.args[1]
    /\ (last'.op = "get_or_create_feed" /\ last'.existed) =>
          /\ {f.id : f \in feeds'} = {f.id : f \in feeds}
          /\ \E f \in feeds :
                /\ f.id = last'.ret
                /\ f.name = FeedArgs.name \/ (FeedArgs.url # NULL /\ f.url = FeedArgs.url)

\* A url is written to an existing feed only when the feed has none, and
\* then it is the supplied url and the feed is the one of the supplied name.
UrlOnlyBackfilled ==
    \A f \in feeds : \E g \in feeds' :
       /\ g.id = f.id
       /\ g.name = f.name
       /\ f.url # NULL => g.url = f.url
       /\ (f.url = NULL /\ g.url # NULL) =>
             (f.name = FeedArgs.name /\ g.url = FeedArgs.url)

CursorStepFor(url) ==
    /\ run.pc = "cursor"
    /\ FEED_URL[run.k] = url
    /\ FeedRowDates(run.df, url) # <<>>

\* The timestamps carried by the entries of feed url that the pass saw and
\* that are newer than the cursor the pass started from.
ObservedStamps(url) ==
    {e.pub : e \in {x \in run.seen[url] :
                      x.pub # NONE /\ (run.since[url] = NONE \/ x.pub > run.since[url])}}

\* C15: after a fetch pass that returned at least one new entry for a
\* feed, the feed's cursor equals the maximum posted timestamp among the
\* entries observed for that feed in the pass and is never a wall-clock
\* fetch time, also when entries carry no published or updated date.
C15_CursorIsNewestEntry ==
    [][\A url \in FeedUrlSet :
          CursorStepFor(url) =>
             /\ ObservedStamps(url) # {}
             /\ GetLastFetch(feeds', url) \in ObservedStamps(url)
             /\ \A s \in ObservedStamps(url) : s <= GetLastFetch(feeds', url)]_vars

\* What the pass does record: the newest 'Posted Date' among the rows of
\* the feed in the data frame, which for an undated entry is the time of
\* the fetch.
C15_CursorIsNewestRow ==
    [][\A url \in FeedUrlSet :
          CursorStepFor(url) =>
             /\ \E i \in 1..Len(run.df) :
                   /\ run.df[i].feed_url = url
                   /\ run.df[i].posted = GetLastFetch(feeds', url)
             /\ \A i \in 1..Len(run.df) :
                   run.df[i].feed_url = url
                      => run.df[i].posted <= GetLastFetch(feeds', url)]_vars

\* A finished pass left the fetch time as the cursor of a feed whose
\* entries are all undated.
C15_Witness ==
    /\ run.pc = "done"
    /\ \E u \in FeedUrlSet :
          /\ run.seen[u] # {}
          /\ \A e \in run.seen[u] : e.pub = NONE
          /\ GetLastFetch(feeds, u) = now

\* A pass has fetched and filtered the feeds: run holds the cursors it
\* started from, the entries the feeds served and the data frame.
Fetched == run.pc # "idle"

\* The timestamp fetch_and_parse_jobs gives an entry.
Stamp(e) == IF e.pub # NONE THEN e.pub ELSE now

AfterCutoff(u, e) == run.since[u] = NONE \/ Stamp(e) > run.since[u]

ReturnedFor(u, e) ==
    \E i \in 1..Len(run.df) : run.df[i].feed_url = u /\ run.df[i].url = e.link

\* The statement as the specification has it: every entry after the cutoff
\* is returned as an entry of its feed.
C16_AsStated ==
    Fetched =>
       \A u \in FeedUrlSet : \A e \in run.seen[u] :
          ReturnedFor(u, e) <=> AfterCutoff(u, e)

\* C16: fetch_and_parse_jobs given a per-feed cutoff returns no entry of
\* that feed whose timestamp is at or before the cutoff, and for every
\* entry strictly after it (every entry, for a feed without a cutoff) it
\* returns a row with that entry's title and URL; a title and URL that
\* several kept entries share are returned once.
C16_SinceFilter ==
    Fetched =>
       /\ \A u \in FeedUrlSet : \A e \in run.seen[u] :
             /\ ReturnedFor(u, e) => AfterCutoff(u, e)
             /\ AfterCutoff(u, e) =>
                   \E i \in 1..Len(run.df) :
                      /\ run.df[i].url = e.link
                      /\ run.df[i].title = EntryTitle(e.link)
       /\ \A i, j \in 1..Len(run.df) :
             (run.df[i].url = run.df[j].url
                /\ run.df[i].title = run.df[j].title) => i = j

\* A pass has fetched a feed that had a cursor, an entry at or before it
\* and an entry after it: only the second is in the data frame.
C16_Witness ==
    /\ run.pc = "upsert"
    /\ \E u \in FeedUrlSet :
          /\ run.since[u] # NONE
          /\ \E old \in run.seen[u], new \in run.seen[u] :
                /\ old.pub # NONE /\ old.pub <= run.since[u]
                /\ new.pub # NONE /\ new.pub > run.since[u]
                /\ Len(run.df) = 1
                /\ run.df[1].url = new.link

(***************************************************************************)
(* Claims about list_jobs.                                                 *)
(***************************************************************************)
\* C14: list_jobs called with an order_by outside the allow-list never
\* raises and returns exactly the sequence that list_jobs with order_by
\* 'created_at DESC' and the same filters returns; the unrecognized text
\* is no part of the executed query.
C14_OrderFallback ==
    [][(last'.op = "list_jobs" /\ last'.args.order_by \notin ALLOWED_ORDER) =>
          /\ ~last'.ret.raised
          /\ last'.ret.order = "created_at DESC"
          /\ last'.ret.rows =
                ListJobs(DB, last'.args.status, last'.args.source,
                         last'.args.min_score, "created_at DESC",
                         last'.args.limit).rows]_vars

\* An unrecognized order_by was answered with two rows, newest first.
C14_Witness ==
    /\ last.op = "list_jobs"
    /\ last.args.order_by = "id; DROP TABLE jobs"
    /\ Len(last.ret.rows) = 2
    /\ JobById(jobs, last.ret.rows[1]).created_at
          > JobById(jobs, last.ret.rows[2]).created_at

(***************************************************************************)
(* Claims about the triage constraints.                                    *)
(***************************************************************************)
ScoreInRange(s) == s >= 0 /\ s <= 10
ScoreWrite == last'.op = "update_score" /\ last'.existed
ScoreInsert == last'.op = "insert_job"
\* The statement raised: it names an existing job (or a new row) and
\* returned nothing.
WriteRejected == last'.ret = NONE

\* C12: a write of a score outside [0, 10] through update_score or a direct
\* insert is rejected with an error and not clamped: the stored score and
\* score_rationale stay what they were, and every stored score is always
\* null or within [0, 10].
C12_ScoreCheck ==
    /\ [](\A j \in jobs : j.score = NONE \/ ScoreInRange(j.score))
    /\ [][/\ (ScoreWrite /\ ~ScoreInRange(last'.args[1]))
               => WriteRejected /\ jobs' = jobs
          /\ (ScoreInsert /\ last'.args[2] # NONE /\ ~ScoreInRange(last'.args[2]))
               => WriteRejected /\ jobs' = jobs]_vars

\* update_score(id, 11, ...) was refused for a job that holds score 10.
C12_Witness ==
    /\ last.op = "update_score"
    /\ last.existed
    /\ last.args[1] = 11
    /\ last.ret = NONE
    /\ JobById(jobs, last.id).score = 10
    /\ JobById(jobs, last.id).score_rationale = "fit"
    /\ last.args[2] = NULL

SpecStatuses == {"new", "interested", "passed", "applied", "rejected", "offer"}
StatusWrite == last'.op = "update_status" /\ last'.existed
StatusInsert == last'.op = "insert_job" /\ ~last'.existed
StatusStored(list) ==
    /\ StatusWrite =>
          IF last'.args[1] \in list
          THEN /\ last'.ret = last'.id
               /\ JobById(jobs', last'.id).status = last'.args[1]
          ELSE WriteRejected /\ jobs' = jobs
    /\ (StatusInsert /\ last'.args[1] \notin list) =>
          WriteRejected /\ jobs' = jobs

\* C13: on a store created by init_db a job's status is always one of new,
\* interested, passed, applied, rejected, offer: update_status with any of
\* these six is accepted and stored, and update_status or insert with any
\* other value is rejected by storage.
C13_SixStatuses ==
    /\ [](\A j \in jobs : j.status \in SpecStatuses)
    /\ [][StatusStored(SpecStatuses)]_vars

\* What the store of init_db enforces is the list of schema.py.
C13_SchemaList ==
    /\ [](\A j \in jobs : j.status \in {"new", "reviewed", "applied", "rejected", "offer"})
    /\ [][StatusStored({"new", "reviewed", "applied", "rejected", "offer"})]_vars

\* update_status(id, 'interested') was refused for an existing job.
C13_Witness ==
    /\ last.op = "update_status"
    /\ last.existed
    /\ last.args[1] = "interested"
    /\ last.ret = NONE
    /\ JobById(jobs, last.id).status = "new"

(***************************************************************************)
(* Claims about what a classifier pass writes.                             *)
(***************************************************************************)
LiveProcessStep == last'.op = "process_jobs" /\ ~last'.args.dry_run

\* What the pass got from analyze_job for job id of the table before the step.
AnalysisOf(id) == analyze_job(JobById(jobs, id), last'.args.classifier[id])

\* Job id was handled as the result asks: removed on DELETE, otherwise the
\* label stored and the other fields written only when they carry a value.
HandledAsResult(id) ==
    LET old == JobById(jobs, id)
        body == AnalysisOf(id).body
        label == Get(body, "location_label", "Review for location")
        job_type == Get(body, "job_type", "Not specified")
        pay_range == Get(body, "pay_range", "NOT_SPECIFIED")
        contract_duration == Get(body, "contract_duration", "NOT_SPECIFIED")
        title_cleaned == Get(body, "title_cleaned", old.title)
    IN  IF label = "DELETE"
        THEN id \notin JobIds(jobs')
        ELSE /\ id \in JobIds(jobs')
             /\ LET new == JobById(jobs', id)
                IN  /\ new.location_label = label
                    /\ new.job_type = IF job_type = "Not specified"
                                      THEN old.job_type ELSE job_type
                    /\ new.pay_range = IF pay_range = "NOT_SPECIFIED"
                                       THEN old.pay_range ELSE pay_range
                    /\ new.contract_duration =
                          IF contract_duration = "NOT_SPECIFIED"
                          THEN old.contract_duration ELSE contract_duration
                    /\ new.title = IF title_cleaned = old.title
                                   THEN old.title ELSE title_cleaned
                    /\ [new EXCEPT !.location_label = old.location_label,
                                   !.job_type = old.job_type,
                                   !.pay_range = old.pay_range,
                                   !.contract_duration = old.contract_duration,
                                   !.title = old.title,
                                   !.updated_at = old.updated_at] = old

\* C11: in a live classifier pass a job whose result has location_label
\* DELETE is removed and nothing else of it is written; for any other result
\* the job's location_label is set to the returned label, job_type is
\* written only when it is not 'Not specified', pay_range and
\* contract_duration only when they are not 'NOT_SPECIFIED', and title only
\* when title_cleaned differs from the stored title.
C11_WritesFollowResult ==
    [][LiveProcessStep =>
         \A i \in 1..Len(last'.ret.batch) :
            AnalysisOf(last'.ret.batch[i]).kind = "object"
                => HandledAsResult(last'.ret.batch[i])]_vars

\* The jobs whose iteration ran to its end are handled as their result
\* asks, and no other row changes.
C11_HoldsForProcessed ==
    [][LiveProcessStep =>
         /\ \A i \in 1..Len(last'.ret.processed) :
               HandledAsResult(last'.ret.processed[i])
         /\ \A j \in jobs :
               (\A i \in 1..Len(last'.ret.processed) : last'.ret.processed[i] # j.id)
                   => j \in jobs']_vars

\* A live pass stopped at a job whose label the column rejects: the job
\* keeps its old label.
C11_Witness ==
    /\ last.op = "process_jobs"
    /\ ~last.args.dry_run
    /\ last.ret.raised
    /\ \E j \in jobs :
          /\ j.id \in DOMAIN last.args.classifier
          /\ last.args.classifier[j.id].kind = "object"
          /\ last.args.classifier[j.id].body.location_label = "Hybrid"
          /\ j.location_label = NULL

(***************************************************************************)
(* Claims about title normalization.                                       *)
(***************************************************************************)
\* C9: normalize_title is idempotent: applying it to its own result
\* returns that result.
C9_Idempotent == nt.done => nt.twice = nt.once

\* normalize_title stripped one annotation and left another, which it
\* strips when applied again.
C9_Witness == nt.done /\ nt.once # nt.title /\ nt.twice # nt.once

\* The annotations " in City, ST" for the cities and states of the model.
InCityState ==
    {<<" ", "in", " ", c, ",", " ", st>> :
        c \in {"Seattle", "Portland"}, st \in {"WA", "OR"}}
IsPrefixOf(p, t) == Len(p) <= Len(t) /\ p = SubSeq(t, 1, Len(p))

\* normalize_title only removes a trailing part of the title, and titles
\* that start with different tokens normalize to different strings.
NormalizedIsPrefix ==
    nt.done =>
        /\ IsPrefixOf(nt.once, Strip(nt.title))
        /\ \A t2 \in InputTitles :
               t2[1] # nt.title[1] => normalize_title(t2) # nt.once

\* C25: for a role text P without a location annotation and any two
\* locations, normalize_title(P + " in City1, S1") and
\* normalize_title(P + " in City2, S2") both equal P trimmed; the result of
\* normalize_title is always a prefix of the trimmed title, so titles that
\* differ in their leading tokens never normalize to the same string.
C25_LocationStripped ==
    /\ nt.done =>
           \A P \in RoleTexts, a1 \in InCityState :
               nt.title = P \o a1 =>
                   /\ nt.once = Strip(P)
                   /\ \A a2 \in InCityState :
                          normalize_title(P \o a2) = nt.once
    /\ NormalizedIsPrefix

\* The same for role texts that do not contain the word "in".
C25_WhenRoleHasNoIn ==
    nt.done =>
        \A P \in RoleTexts, a1 \in InCityState :
            (nt.title = P \o a1 /\ \A x \in 1..Len(P) : P[x] # "in") =>
                /\ nt.once = Strip(P)
                /\ \A a2 \in InCityState : normalize_title(P \o a2) = nt.once

\* normalize_title was applied to a role text containing the word "in"
\* followed by one location, and cut the title inside the role text.
C25_Witness ==
    /\ nt.done
    /\ nt.title = <<"Writer", " ", "in", " ", "Test",
                    " ", "in", " ", "Seattle", ",", " ", "WA">>
    /\ nt.once = <<"Writer">>

(***************************************************************************)
(* Claims about the location filter.                                       *)
(***************************************************************************)
\* Lexeme x of t is a piece of a word.
WordPiece(t, x) ==
    x \in 1..Len(t)
    /\ t[x] \notin {" ", "\n", ",", "(", ")", "-", ":", ".", "%"}

\* The twelve metro city names, in lower case.
MetroNames ==
    {<<"seattle">>, <<"bellevue">>, <<"redmond">>, <<"kirkland">>,
     <<"bothell">>, <<"renton">>, <<"kent">>, <<"federal", " ", "way">>,
     <<"sammamish">>, <<"issaquah">>, <<"tacoma">>, <<"olympia">>}

\* t contains, starting at a word boundary and in any case, a metro city
\* name, then a comma, optional whitespace and the whole word WA.
CityCommaWA(t) ==
    \E c \in MetroNames, i \in 1..Len(t) :
        LET j == i + Len(c)
        IN  /\ j <= Len(t)
            /\ [x \in 1..Len(c) |-> Lower(t[i + x - 1])] = c
            /\ ~WordPiece(t, i - 1)
            /\ t[j] = ","
            /\ \E k \in (j + 1)..Len(t) :
                   /\ \A x \in (j + 1)..(k - 1) : t[x] \in {" ", "\n"}
                   /\ Lower(t[k]) = "wa"
                   /\ ~WordPiece(t, k + 1)

\* C26: is_seattle(title) is true iff the title contains, in any case and
\* starting at a word boundary, one of the twelve metro city names followed
\* by a comma, optional whitespace and the whole word WA; a title without
\* the state code WA does not match.
C26_SeattleIffCityCommaWA ==
    loc.done =>
        /\ loc.seattle <=> CityCommaWA(loc.title)
        /\ (\A x \in 1..Len(loc.title) : Lower(loc.title[x]) # "wa")
               => ~loc.seattle

\* is_seattle accepted a title that spells the city and the state in another
\* case than the list does.
C26_Witness ==
    /\ loc.done /\ loc.seattle
    /\ loc.title = <<"Writer", " ", "in", " ", "KENT", ",", " ", "Wa">>

\* The title contains the whole word remote, in any case.
TitleSaysRemote(t) ==
    \E i \in 1..Len(t) :
        Lower(t[i]) = "remote" /\ ~WordPiece(t, i - 1) /\ ~WordPiece(t, i + 1)

\* C27: is_truly_remote(description, title) is true when the title contains
\* the whole word remote and matches no negative pattern, whatever the
\* description; otherwise it is false for an empty or absent description,
\* and else true iff the description matches a positive pattern and no
\* negative pattern.
C27_TitleThenDescription ==
    loc.done =>
        loc.remote =
            IF TitleSaysRemote(loc.title)
               /\ ~Search(loc.title, REMOTE_NEGATIVE)
            THEN TRUE
            ELSE IF loc.description \in {<<NULL>>, <<>>} THEN FALSE
            ELSE Search(loc.description, REMOTE_POSITIVE)
                 /\ ~Search(loc.description, REMOTE_NEGATIVE)

\* is_truly_remote answered true for a title with the word Remote although
\* the description matches a negative pattern.
C27_Witness ==
    /\ loc.done /\ loc.remote
    /\ TitleSaysRemote(loc.title)
    /\ loc.description # <<NULL>>
    /\ Search(loc.description, REMOTE_NEGATIVE)

(***************************************************************************)
(* Claims about the fetch cursor.                                          *)
(***************************************************************************)
\* The feed's cursor was moved by the pass that has just finished.
CursorAdvanced(u) == GetLastFetch(feeds, u) # run.since[u]

\* The entries of feed u the pass saw that are newer than the cursor the
\* pass started from.
NewerThanCursor(u) ==
    {e \in run.seen[u] : run.since[u] = NONE \/ PubDate(e, now) > run.since[u]}

\* C3: when a fetch pass ends, a feed's cursor has been advanced only if
\* every entry of the feed newer than the previous cursor was upserted in
\* the pass, and the cursor has not been advanced to or past an entry whose
\* upsert failed.
C3_CursorOnlyAfterUpserts ==
    run.pc = "done" =>
        /\ \A u \in FeedUrlSet :
              CursorAdvanced(u) => \A e \in NewerThanCursor(u) : e.link \in run.stored
        /\ \A r \in run.failed :
              \/ ~CursorAdvanced(r.feed_url)
              \/ GetLastFetch(feeds, r.feed_url) < r.posted

\* The part of C3 the code does keep: a pass in which no upsert failed.
C3_HoldsWithoutFailure ==
    (run.pc = "done" /\ run.failed = {}) =>
        \A u \in FeedUrlSet :
            CursorAdvanced(u) => \A e \in NewerThanCursor(u) : e.link \in run.stored

\* A finished pass that moved a cursor over two stored entries.
C3_Witness ==
    /\ run.pc = "done"
    /\ run.failed = {}
    /\ \E u \in FeedUrlSet : CursorAdvanced(u) /\ Cardinality(NewerThanCursor(u)) = 2

\* C4: no step replaces a feed's last_fetch with an earlier timestamp.
C4_CursorMonotone ==
    [][\A f \in feeds : \A g \in feeds' :
          (g.id = f.id /\ f.last_fetch # NONE) => g.last_fetch >= f.last_fetch]_vars

\* The part of C4 the code does keep: the steps of a fetch pass.
C4_PassesMonotone ==
    [][run'.pc # "idle" =>
          \A f \in feeds : \A g \in feeds' :
              (g.id = f.id /\ f.last_fetch # NONE) => g.last_fetch >= f.last_fetch]_vars

\* A pass has moved a cursor that was already set.
C4_Witness ==
    /\ run.pc = "done"
    /\ \E u \in FeedUrlSet : run.since[u] # NONE /\ GetLastFetch(feeds, u) > run.since[u]

(***************************************************************************)
(* Claims about the job store.                                             *)
(***************************************************************************)
\* The step just taken is a call of upsert_job (every call takes a value of
\* the jobs counter).
UpsertStep == last'.op = "upsert_job" /\ seq'.jobs # seq.jobs

\* The triage and system columns an upsert on an existing url leaves alone.
TriageFrame(old, new) ==
    /\ new.id = old.id
    /\ new.url = old.url
    /\ new.status = old.status
    /\ new.score = old.score
    /\ new.score_rationale = old.score_rationale
    /\ new.resume_md = old.resume_md
    /\ new.resume_pdf_path = old.resume_pdf_path
    /\ new.cover_letter_md = old.cover_letter_md
    /\ new.cover_letter_pdf_path = old.cover_letter_pdf_path
    /\ new.location_label = old.location_label
    /\ new.job_type = old.job_type
    /\ new.pay_range = old.pay_range
    /\ new.contract_duration = old.contract_duration
    /\ new.created_at = old.created_at

\* The same upsert_job call as the one before it.
RepeatedUpsert ==
    /\ last.op = "upsert_job"
    /\ UpsertStep
    /\ last'.url = last.url
    /\ last'.args = last.args

Unstamped(js) == {[j EXCEPT !.updated_at = 0] : j \in js}

\* C18: upsert is idempotent on URL: the same upsert (same title, url,
\* description, posted_date, source, feed, feed_url) applied a second time
\* leaves the jobs, sources and feeds tables as the first application left
\* them, apart from updated_at.
C18_UpsertIdempotent ==
    [][RepeatedUpsert =>
          /\ Unstamped(jobs') = Unstamped(jobs)
          /\ sources' = sources
          /\ feeds' = feeds]_vars

\* An upsert that names a source and a feed has hit, after the clock moved,
\* the one row that an earlier upsert stored.
C18_Witness ==
    /\ last.op = "upsert_job"
    /\ last.existed
    /\ seq.jobs = 2
    /\ Cardinality(jobs) = 1
    /\ Cardinality(sources) = 1
    /\ Cardinality(feeds) = 1
    /\ last.args.feed = "Feed A"
    /\ \E j \in jobs : j.updated_at > j.created_at /\ j.title = last.args.title

\* The step is a call on a job id (the clock does not move during a call).
ByIdStep ==
    /\ last'.op \in {"delete_job", "update_status", "update_score"}
    /\ now' = now
OtherTablesKept == sources' = sources /\ feeds' = feeds /\ seq' = seq

\* C28: delete_job(id) returns true iff a row with that id existed, after
\* which get_job(id) is absent and all other rows are unchanged;
\* delete_job, update_status and update_score on an id that does not exist
\* return false/absent and leave the store unchanged.
C28_DeleteAndMissingId ==
    [][/\ (ByIdStep /\ last'.op = "delete_job") =>
             /\ (last'.ret = 1) <=> (last'.id \in JobIds(jobs))
             /\ last'.ret \in {0, 1}
             /\ last'.id \notin JobIds(jobs')
             /\ jobs' = {j \in jobs : j.id # last'.id}
             /\ OtherTablesKept
       /\ (ByIdStep /\ last'.id \notin JobIds(jobs)) =>
             /\ last'.ret = IF last'.op = "delete_job" THEN 0 ELSE NONE
             /\ jobs' = jobs
             /\ OtherTablesKept]_vars

\* A delete has removed one of two rows, and the id it removed is then used
\* again by a call that finds nothing.
C28_Witness ==
    /\ last.op \in {"update_status", "update_score", "delete_job"}
    /\ ~last.existed
    /\ last.id <= seq.jobs
    /\ Cardinality(jobs) = 1
    /\ seq.jobs = 2
    /\ last.id \notin JobIds(jobs)

\* C30 as stated: on re-upsert of an existing URL, description, posted_date,
\* source and feed are replaced by the supplied values even when a supplied
\* value is absent: an omitted optional argument clears the stored
\* description, posted_date, source_id or feed_id to null rather than
\* keeping the previous value.
C30_AsStated ==
    [][(UpsertStep /\ last'.existed) =>
        LET new == JobByUrl(jobs', last'.url)
            p == last'.args
        IN  /\ new.description = p.description
            /\ new.posted_date = p.posted_date
            /\ IF p.source = NULL THEN new.source_id = NONE
               ELSE SourceName(sources', new.source_id) = p.source
            /\ IF p.feed = NULL THEN new.feed_id = NONE
               ELSE FeedName(feeds', new.feed_id) = p.feed]_vars

\* C30 amended: description, posted_date and source are replaced by the
\* supplied values and cleared when the value is absent; the feed is cleared
\* when no feed is supplied and is otherwise the feed resolved from
\* (feed, feed_url): the one registered under feed_url if there is one,
\* else the one of the supplied name.
C30_ReplacesOrClears ==
    [][(UpsertStep /\ last'.existed) =>
        LET new == JobByUrl(jobs', last'.url)
            p == last'.args
        IN  /\ new.description = p.description
            /\ new.posted_date = p.posted_date
            /\ IF p.source = NULL THEN new.source_id = NONE
               ELSE SourceName(sources', new.source_id) = p.source
            /\ IF p.feed = NULL THEN new.feed_id = NONE
               ELSE IF p.feed_url # NULL /\ \E f \in feeds : f.url = p.feed_url
               THEN FeedName(feeds', new.feed_id)
                       = (CHOOSE f \in feeds : f.url = p.feed_url).name
               ELSE FeedName(feeds', new.feed_id) = p.feed]_vars

\* A row that had a description, a date, a source and a feed has been
\* upserted again without any of them and holds none of them.
C30_Witness ==
    /\ last.op = "upsert_job"
    /\ last.existed
    /\ last.args.description = NULL
    /\ last.args.source = NULL
    /\ Cardinality(sources) = 1
    /\ Cardinality(feeds) = 1
    /\ \E j \in jobs :
          /\ j.url = last.url
          /\ j.created_at < j.updated_at
          /\ j.description = NULL /\ j.posted_date = NONE
          /\ j.source_id = NONE /\ j.feed_id = NONE

UniqueUrls == \A a, b \in jobs : a.url = b.url => a = b

\* C2: no two job rows share a url; an upsert of a url already present
\* returns the id of the existing row and leaves the row count unchanged, an
\* upsert of a url not present adds exactly one row.
C2_UniqueUrl ==
    /\ []UniqueUrls
    /\ [][UpsertStep =>
            IF last'.url \in JobUrls(jobs)
            THEN /\ last'.ret = JobByUrl(jobs, last'.url).id
                 /\ Cardinality(jobs') = Cardinality(jobs)
            ELSE /\ Cardinality(jobs') = Cardinality(jobs) + 1
                 /\ last'.ret \notin JobIds(jobs)]_vars

\* Two rows in the store, the last call an upsert of a url that was present.
C2_Witness ==
    /\ last.op = "upsert_job"
    /\ last.existed
    /\ Cardinality(jobs) = 2
    /\ \E j \in jobs : j.status = "reviewed"

====
